---- MODULE Spec2Model ----
(***************************************************************************)
(* Model of the ckTestBTC wallet: the mock token ledger                    *)
(* (src/src/mock_cktestbtc_ledger/src/lib.rs) and the custodial backend    *)
(* (src/src/backend/src/lib.rs).  Each canister is single threaded; an     *)
(* update method runs atomically up to its next `.await`, and the reply    *)
(* of an inter-canister call is handled in a later, separate message.      *)
(***************************************************************************)
EXTENDS Integers, Sequences, FiniteSets, TLC

VARIABLES
    BALANCES,                    \* ledger: HashMap<Account, Nat>
    ALLOWANCES,                  \* ledger: HashMap<(Account, Account), Allowance>
    TOTAL_SUPPLY,                \* ledger: Nat
    BLOCK_INDEX,                 \* ledger: Nat, next block index
    USER_BALANCES,               \* backend: StableBTreeMap<Principal, u64>
    STABLE_TRANSACTIONS,         \* backend: StableVec<CustodialTransaction>
    STABLE_TRANSACTION_COUNTER,  \* backend: u64
    calls,                       \* backend: call contexts suspended at an await
    TRANSACTIONS,                \* backend: Vec<Transaction> (legacy log)
    TRANSACTION_COUNTER,         \* backend: u64
    local_development,           \* backend: is_local_development(), fixed by the canister id
    MINTER_BLOCK_INDEX,          \* minter: BLOCK_INDEX, u64
    WITHDRAWAL_REQUESTS,         \* minter: HashMap<u64, RetrieveBtcStatus>
    KNOWN_UTXOS,                 \* minter: HashMap<Account, Vec<Utxo>>
    PENDING_UTXOS,               \* minter: HashMap<Account, Vec<Utxo>>
    LOCAL_TOKEN_BALANCES,        \* local_token: BALANCES, HashMap<Principal, Nat>
    LOCAL_TOKEN_TRANSACTION_COUNTER,  \* local_token: TRANSACTION_COUNTER, Nat
    last                         \* the last message executed: method, inputs, response

ledgerVars == <<BALANCES, ALLOWANCES, TOTAL_SUPPLY, BLOCK_INDEX>>
walletVars == <<USER_BALANCES, STABLE_TRANSACTIONS, STABLE_TRANSACTION_COUNTER, calls>>
legacyVars == <<TRANSACTIONS, TRANSACTION_COUNTER, local_development>>
minterVars == <<MINTER_BLOCK_INDEX, WITHDRAWAL_REQUESTS, KNOWN_UTXOS, PENDING_UTXOS>>
tokenVars == <<LOCAL_TOKEN_BALANCES, LOCAL_TOKEN_TRANSACTION_COUNTER>>
vars == <<BALANCES, ALLOWANCES, TOTAL_SUPPLY, BLOCK_INDEX, USER_BALANCES,
          STABLE_TRANSACTIONS, STABLE_TRANSACTION_COUNTER, calls,
          TRANSACTIONS, TRANSACTION_COUNTER, local_development,
          MINTER_BLOCK_INDEX, WITHDRAWAL_REQUESTS, KNOWN_UTXOS, PENDING_UTXOS,
          LOCAL_TOKEN_BALANCES, LOCAL_TOKEN_TRANSACTION_COUNTER, last>>

----------------------------------------------------------------------------
(* Bounds of the model *)

MaxBlocks == 4      \* successful ledger calls explored
MaxTx == 3          \* custodial transaction records explored
MaxCalls == 2       \* backend calls suspended at the same time
MaxSupply == 33     \* tokens minted to the wallet's ledger account explored
MaxCustodyCalls == 1  \* deposit_to_custody and faucet calls suspended at the same time
MaxHistory == 102    \* records appended to the two transaction logs together
MaxUtxos == 3       \* UTXOs handed to the minter for one account
MaxTokenTx == 4     \* successful local_token transfers and mints explored
U64_LIMIT == 536870912  \* stands for 2^64, the first value a u64 cannot hold (TLC integers have 32 bits)

(* Program constants *)

TRANSFER_FEE == 10
WALLET_FEE == 10

----------------------------------------------------------------------------
(* Option<T>: None is the empty tuple, Some(x) the one-element tuple *)

None == <<>>
Some(x) == <<x>>
unwrap_or(o, d) == IF o = None THEN d ELSE o[1]

(* Maps: HashMap / StableBTreeMap get, insert, remove *)

Get(m, k) == IF k \in DOMAIN m THEN Some(m[k]) ELSE None
Insert(m, k, v) == [x \in (DOMAIN m) \cup {k} |-> IF x = k THEN v ELSE m[x]]
Remove(m, k) == [x \in (DOMAIN m) \ {k} |-> m[x]]
EmptyMap == [x \in {} |-> 0]

RECURSIVE SumOver(_, _)
SumOver(m, S) ==
    IF S = {} THEN 0
    ELSE LET k == CHOOSE x \in S : TRUE IN m[k] + SumOver(m, S \ {k})
SumValues(m) == SumOver(m, DOMAIN m)

(* Results *)

Ok(v) == [tag |-> "Ok", value |-> v]
Err(e) == [tag |-> "Err", error |-> e]
BadFee(f) == [kind |-> "BadFee", expected_fee |-> f]
InsufficientFunds(b) == [kind |-> "InsufficientFunds", balance |-> b]
InsufficientAllowance(a) == [kind |-> "InsufficientAllowance", allowance |-> a]
GenericError(c) == [kind |-> "GenericError", error_code |-> c]

----------------------------------------------------------------------------
(* Principals and accounts *)

Users == {"u1", "u2"}
backend == "backend"
minter == "minter"
Principals == Users \cup {backend, minter}

Account(owner, subaccount) == [owner |-> owner, subaccount |-> subaccount]
DefaultAccount(p) == Account(p, None)
Accounts == {DefaultAccount(p) : p \in Principals}

----------------------------------------------------------------------------
(* mock_cktestbtc_ledger *)

balance_of(balances, account) == unwrap_or(Get(balances, account), 0)
icrc1_balance_of(account) == balance_of(BALANCES, account)

NoAllowance == [allowance |-> 0, expires_at |-> None]
icrc2_allowance(account, spender) == unwrap_or(Get(ALLOWANCES, <<account, spender>>), NoAllowance)

(* What a ledger update call produces: its reply and the ledger's next state *)
LedgerOutcome(ret, balances, allowances, total_supply, block_index) ==
    [ret |-> ret, balances |-> balances, allowances |-> allowances,
     total_supply |-> total_supply, block_index |-> block_index]
LedgerReturn(ret) == LedgerOutcome(ret, BALANCES, ALLOWANCES, TOTAL_SUPPLY, BLOCK_INDEX)

(* "Deduct from sender": the entry is removed when the new balance is zero *)
deduct(balances, account, new_balance) ==
    IF new_balance = 0 THEN Remove(balances, account)
    ELSE Insert(balances, account, new_balance)

(* Mutant: the receiver's balance is the one read before the deduction *)
add_to_receiver_stale(balances, to, amount) ==
    Insert(balances, to, icrc1_balance_of(to) + amount)

(* "Add to receiver": reads the map after the deduction *)
add_to_receiver(balances, to, amount) ==
    Insert(balances, to, balance_of(balances, to) + amount)

(* Mutant: the funds check forgets the fee *)
icrc1_transfer_fee_unchecked(caller, args) ==
    LET from_account == Account(caller, args.from_subaccount)
        fee == unwrap_or(args.fee, TRANSFER_FEE)
        sender_balance == icrc1_balance_of(from_account)
        total_amount == args.amount + fee
    IN  IF fee # TRANSFER_FEE
        THEN LedgerReturn(Err(BadFee(TRANSFER_FEE)))
        ELSE IF sender_balance < args.amount
        THEN LedgerReturn(Err(InsufficientFunds(sender_balance)))
        ELSE LedgerOutcome(
                Ok(BLOCK_INDEX),
                add_to_receiver(deduct(BALANCES, from_account, sender_balance - total_amount),
                                args.to, args.amount),
                ALLOWANCES, TOTAL_SUPPLY, BLOCK_INDEX + 1)

(* Mutant: the funds check comes before the fee check *)
icrc1_transfer_funds_first(caller, args) ==
    LET from_account == Account(caller, args.from_subaccount)
        fee == unwrap_or(args.fee, TRANSFER_FEE)
        sender_balance == icrc1_balance_of(from_account)
        total_amount == args.amount + fee
    IN  IF sender_balance < total_amount
        THEN LedgerReturn(Err(InsufficientFunds(sender_balance)))
        ELSE IF fee # TRANSFER_FEE
        THEN LedgerReturn(Err(BadFee(TRANSFER_FEE)))
        ELSE LedgerOutcome(
                Ok(BLOCK_INDEX),
                add_to_receiver(deduct(BALANCES, from_account, sender_balance - total_amount),
                                args.to, args.amount),
                ALLOWANCES, TOTAL_SUPPLY, BLOCK_INDEX + 1)

icrc1_transfer(caller, args) ==
    LET from_account == Account(caller, args.from_subaccount)
        fee == unwrap_or(args.fee, TRANSFER_FEE)
        sender_balance == icrc1_balance_of(from_account)
        total_amount == args.amount + fee
    IN  IF fee # TRANSFER_FEE
        THEN LedgerReturn(Err(BadFee(TRANSFER_FEE)))
        ELSE IF sender_balance < total_amount
        THEN LedgerReturn(Err(InsufficientFunds(sender_balance)))
        ELSE LedgerOutcome(
                Ok(BLOCK_INDEX),
                add_to_receiver(deduct(BALANCES, from_account, sender_balance - total_amount),
                                args.to, args.amount),
                ALLOWANCES, TOTAL_SUPPLY, BLOCK_INDEX + 1)

(* Mutant: the new amount is added to the allowance already there *)
icrc2_approve_adds(caller, args) ==
    LET from_account == Account(caller, args.from_subaccount)
        fee == unwrap_or(args.fee, TRANSFER_FEE)
        balance == icrc1_balance_of(from_account)
    IN  IF fee # TRANSFER_FEE
        THEN LedgerReturn(Err(BadFee(TRANSFER_FEE)))
        ELSE IF balance < fee
        THEN LedgerReturn(Err(InsufficientFunds(balance)))
        ELSE LedgerOutcome(
                Ok(BLOCK_INDEX),
                deduct(BALANCES, from_account, balance - fee),
                Insert(ALLOWANCES, <<from_account, args.spender>>,
                       [allowance |-> icrc2_allowance(from_account, args.spender).allowance
                                          + args.amount,
                        expires_at |-> args.expires_at]),
                TOTAL_SUPPLY, BLOCK_INDEX + 1)

icrc2_approve(caller, args) ==
    LET from_account == Account(caller, args.from_subaccount)
        fee == unwrap_or(args.fee, TRANSFER_FEE)
        balance == icrc1_balance_of(from_account)
    IN  IF fee # TRANSFER_FEE
        THEN LedgerReturn(Err(BadFee(TRANSFER_FEE)))
        ELSE IF balance < fee
        THEN LedgerReturn(Err(InsufficientFunds(balance)))
        ELSE LedgerOutcome(
                Ok(BLOCK_INDEX),
                deduct(BALANCES, from_account, balance - fee),
                Insert(ALLOWANCES, <<from_account, args.spender>>,
                       [allowance |-> args.amount, expires_at |-> args.expires_at]),
                TOTAL_SUPPLY, BLOCK_INDEX + 1)

(* Mutant: the allowance is left as it was *)
update_allowance_skipped(allowances, from, spender_account, allowance, total_amount) ==
    allowances

(* Mutant: every allowance given by the owner is dropped *)
update_allowance_of_all_spenders(allowances, from, spender_account, allowance, total_amount) ==
    [k \in {x \in DOMAIN allowances : x[1] # from} |-> allowances[k]]

(* "Update allowance": the entry is removed when nothing remains *)
update_allowance(allowances, from, spender_account, allowance, total_amount) ==
    LET new_allowance == allowance.allowance - total_amount
    IN  IF new_allowance = 0 THEN Remove(allowances, <<from, spender_account>>)
        ELSE Insert(allowances, <<from, spender_account>>,
                    [allowance |-> new_allowance, expires_at |-> allowance.expires_at])

(* Mutant: the allowance is neither checked nor used *)
icrc2_transfer_from_without_allowance(caller, args) ==
    LET fee == unwrap_or(args.fee, TRANSFER_FEE)
        total_amount == args.amount + fee
        from_balance == icrc1_balance_of(args.from)
    IN  IF from_balance < total_amount
        THEN LedgerReturn(Err(InsufficientFunds(from_balance)))
        ELSE LedgerOutcome(
                Ok(BLOCK_INDEX),
                add_to_receiver(deduct(BALANCES, args.from, from_balance - total_amount),
                                args.to, args.amount),
                ALLOWANCES, TOTAL_SUPPLY, BLOCK_INDEX + 1)

icrc2_transfer_from(caller, args) ==
    LET spender_account == Account(caller, args.spender_subaccount)
        allowance == icrc2_allowance(args.from, spender_account)
        fee == unwrap_or(args.fee, TRANSFER_FEE)
        total_amount == args.amount + fee
        from_balance == icrc1_balance_of(args.from)
    IN  IF allowance.allowance < total_amount
        THEN LedgerReturn(Err(InsufficientAllowance(allowance.allowance)))
        ELSE IF from_balance < total_amount
        THEN LedgerReturn(Err(InsufficientFunds(from_balance)))
        ELSE LedgerOutcome(
                Ok(BLOCK_INDEX),
                add_to_receiver(deduct(BALANCES, args.from, from_balance - total_amount),
                                args.to, args.amount),
                update_allowance(ALLOWANCES, args.from, spender_account, allowance, total_amount),
                TOTAL_SUPPLY, BLOCK_INDEX + 1)

(* Mutant: every caller may mint *)
is_authorized_anyone(caller) == TRUE

is_authorized(caller) == caller = minter \/ caller = backend

(* Mutant: the index returned is the one after the increment *)
mint_returns_next_index(caller, to, amount) ==
    IF ~is_authorized(caller)
    THEN LedgerReturn(Err(GenericError(1)))
    ELSE LedgerOutcome(
            Ok(BLOCK_INDEX + 1),
            Insert(BALANCES, to, icrc1_balance_of(to) + amount),
            ALLOWANCES, TOTAL_SUPPLY + amount, BLOCK_INDEX + 1)

(* Mutant: the total supply is not raised *)
mint_without_supply(caller, to, amount) ==
    IF ~is_authorized(caller)
    THEN LedgerReturn(Err(GenericError(1)))
    ELSE LedgerOutcome(
            Ok(BLOCK_INDEX),
            Insert(BALANCES, to, icrc1_balance_of(to) + amount),
            ALLOWANCES, TOTAL_SUPPLY, BLOCK_INDEX + 1)

mint(caller, to, amount) ==
    IF ~is_authorized(caller)
    THEN LedgerReturn(Err(GenericError(1)))
    ELSE LedgerOutcome(
            Ok(BLOCK_INDEX),
            Insert(BALANCES, to, icrc1_balance_of(to) + amount),
            ALLOWANCES, TOTAL_SUPPLY + amount, BLOCK_INDEX + 1)

(* The ledger commits the outcome of one update call *)
LedgerCommit(o) ==
    /\ BALANCES' = o.balances
    /\ ALLOWANCES' = o.allowances
    /\ TOTAL_SUPPLY' = o.total_supply
    /\ BLOCK_INDEX' = o.block_index

LedgerEvent(method, caller, args, ret) ==
    [canister |-> "ledger", method |-> method, caller |-> caller, args |-> args, ret |-> ret]

----------------------------------------------------------------------------
(* backend: custodial wallet *)

(* Nat::to_u64_digits: the digits of the number in base 2^64, least          *)
(* significant first and none for zero.  U64_LIMIT stands for 2^64.           *)
to_u64_digits_keeping_all(amount) == IF amount = 0 THEN <<>> ELSE <<amount>>

RECURSIVE to_u64_digits(_)
to_u64_digits(amount) ==
    IF amount = 0 THEN <<>>
    ELSE <<amount % U64_LIMIT>> \o to_u64_digits(amount \div U64_LIMIT)

get_virtual_balance(user) == unwrap_or(Get(USER_BALANCES, user), 0)

(* u64 `+`.  When the sum does not fit, the build decides: with overflow     *)
(* checks the canister panics (the message traps and its changes are        *)
(* dropped), without them the sum wraps around.                             *)
u64_add(a, b) == (a + b) % U64_LIMIT

overflow_outcomes(a, b) == IF a + b >= U64_LIMIT THEN {"wrap", "panic"} ELSE {"exact"}

Trap == [tag |-> "Trap"]

CustodialTransaction(id, tx_type, from_user, to_user, virtual_amount, on_chain_amount, status, block_index) ==
    [id |-> id, tx_type |-> tx_type, from_user |-> from_user, to_user |-> to_user,
     virtual_amount |-> virtual_amount, on_chain_amount |-> on_chain_amount,
     block_index |-> block_index, status |-> status]

(* store_custodial_transaction numbering the record with the counter's old value *)
store_custodial_transaction_old_id(tx_type, from_user, to_user, virtual_amount, on_chain_amount, status, block_index) ==
    /\ STABLE_TRANSACTION_COUNTER' = STABLE_TRANSACTION_COUNTER + 1
    /\ STABLE_TRANSACTIONS' = Append(STABLE_TRANSACTIONS,
            CustodialTransaction(STABLE_TRANSACTION_COUNTER, tx_type, from_user, to_user,
                                 virtual_amount, on_chain_amount, status, block_index))

(* store_custodial_transaction: bumps the counter, pushes the record, returns the id *)
store_custodial_transaction(tx_type, from_user, to_user, virtual_amount, on_chain_amount, status, block_index) ==
    /\ STABLE_TRANSACTION_COUNTER' = STABLE_TRANSACTION_COUNTER + 1
    /\ STABLE_TRANSACTIONS' = Append(STABLE_TRANSACTIONS,
            CustodialTransaction(STABLE_TRANSACTION_COUNTER + 1, tx_type, from_user, to_user,
                                 virtual_amount, on_chain_amount, status, block_index))

TransferArgs(to, amount, fee) ==
    [from_subaccount |-> None, to |-> to, amount |-> amount, fee |-> fee]

(* Call contexts of the backend *)
Slots == 1..MaxCalls
Idle == [state |-> "idle"]
Suspended(s) == calls[s].state \in {"called", "replied"}
NumSuspended == Cardinality({s \in Slots : Suspended(s)})
HasFreeSlot == \E s \in Slots : calls[s] = Idle
FreeSlot == CHOOSE s \in Slots : calls[s] = Idle /\ \A t \in Slots : t < s => calls[t] # Idle

(* ic_cdk::call(token_canister, "icrc1_transfer", (transfer_args,)).await *)
CallLedgerTransfer(method, user, amount, amount_u64, locals, transfer_args) ==
    calls' = [calls EXCEPT ![FreeSlot] =
                [state |-> "called", method |-> method, user |-> user, amount |-> amount,
                 amount_u64 |-> amount_u64, locals |-> locals, args |-> transfer_args]]

(* phase: "call" for the message of the call itself, "reply" for the message that *)
(* resumes it after the await; ret is None while the call is suspended          *)
WalletEvent(method, phase, caller, args, ret) ==
    [canister |-> "backend", method |-> method, phase |-> phase, caller |-> caller,
     args |-> args, ret |-> ret]

InvalidAmountFormat == [kind |-> "Invalid amount format"]
InsufficientVirtualBalance(available, requested) ==
    [kind |-> "Insufficient virtual balance", available |-> available, requested |-> requested]
CannotTransferToYourself == [kind |-> "Cannot transfer to yourself"]
TransferFailed(e) == [kind |-> "transfer failed", error |-> e]
CallFailed == [kind |-> "call failed"]

(* withdraw_funds up to the await of the ledger call *)
withdraw_funds(user, amount) ==
    LET amount_satoshis == to_u64_digits(amount)
        args == [amount |-> amount]
    IN  IF Len(amount_satoshis) # 1
        THEN /\ last' = WalletEvent("withdraw_funds", "call", user, args, Some(Err(InvalidAmountFormat)))
             /\ UNCHANGED <<ledgerVars, walletVars>>
        ELSE LET amount_u64 == amount_satoshis[1]
                 current_balance == get_virtual_balance(user)
             IN  IF current_balance < amount_u64
                 THEN /\ store_custodial_transaction("Withdraw", None, Some(user), Some(amount_u64),
                                                     Some(amount), "Failed", None)
                      /\ last' = WalletEvent("withdraw_funds", "call", user, args,
                                    Some(Err(InsufficientVirtualBalance(current_balance, amount_u64))))
                      /\ UNCHANGED <<ledgerVars, USER_BALANCES, calls>>
                 ELSE /\ HasFreeSlot
                      /\ CallLedgerTransfer("withdraw_funds", user, amount, amount_u64,
                                            [current_balance |-> current_balance],
                                            TransferArgs(DefaultAccount(user), amount, Some(WALLET_FEE)))
                      /\ last' = WalletEvent("withdraw_funds", "call", user, args, None)
                      /\ UNCHANGED <<ledgerVars, USER_BALANCES, STABLE_TRANSACTIONS,
                                     STABLE_TRANSACTION_COUNTER>>

(* withdraw_funds, reply Ok((Ok(block_index),)): the virtual balance is written *)
(* from the balance read before the call                                        *)
withdraw_funds_ok(s, block_index) ==
    LET c == calls[s]
        current_balance == c.locals.current_balance
        new_balance == current_balance - c.amount_u64
    IN  /\ USER_BALANCES' = Insert(USER_BALANCES, c.user, new_balance)
        /\ store_custodial_transaction("Withdraw", None, Some(c.user), Some(c.amount_u64),
                                       Some(c.amount), "Confirmed", Some(block_index))
        /\ last' = WalletEvent("withdraw_funds", "reply", c.user,
                      [amount |-> c.amount, current_balance |-> current_balance,
                       new_balance |-> new_balance],
                      Some(Ok(block_index)))

(* Mutant: the failed withdrawal is debited all the same *)
withdraw_funds_err_debits(s, transfer_error) ==
    LET c == calls[s]
    IN  /\ store_custodial_transaction("Withdraw", None, Some(c.user), Some(c.amount_u64),
                                       Some(c.amount), "Failed", None)
        /\ last' = WalletEvent("withdraw_funds", "reply", c.user, [amount |-> c.amount],
                      Some(Err(TransferFailed(transfer_error))))
        /\ USER_BALANCES' = Insert(USER_BALANCES, c.user,
                                   c.locals.current_balance - c.amount_u64)

(* withdraw_funds, reply Ok((Err(transfer_error),)) *)
withdraw_funds_err(s, transfer_error) ==
    LET c == calls[s]
    IN  /\ store_custodial_transaction("Withdraw", None, Some(c.user), Some(c.amount_u64),
                                       Some(c.amount), "Failed", None)
        /\ last' = WalletEvent("withdraw_funds", "reply", c.user, [amount |-> c.amount],
                      Some(Err(TransferFailed(transfer_error))))
        /\ UNCHANGED USER_BALANCES

(* withdraw_funds, reply Err(e): the call itself failed *)
withdraw_funds_call_failed(s) ==
    LET c == calls[s]
    IN  /\ last' = WalletEvent("withdraw_funds", "reply", c.user, [amount |-> c.amount],
                      Some(Err(CallFailed)))
        /\ UNCHANGED <<USER_BALANCES, STABLE_TRANSACTIONS, STABLE_TRANSACTION_COUNTER>>

(* withdraw_funds from the reply of the ledger call to its return *)
withdraw_funds_reply(s) ==
    LET result == calls[s].reply
    IN  /\ calls' = [calls EXCEPT ![s] = Idle]
        /\ UNCHANGED ledgerVars
        /\ IF result.tag = "Ok" /\ result.value.tag = "Ok"
           THEN withdraw_funds_ok(s, result.value.value)
           ELSE IF result.tag = "Ok"
           THEN withdraw_funds_err(s, result.value.error)
           ELSE withdraw_funds_call_failed(s)

(* deposit_funds up to the await of the ledger call *)
deposit_funds(user, amount) ==
    LET amount_satoshis == to_u64_digits(amount)
        args == [amount |-> amount]
    IN  IF Len(amount_satoshis) # 1
        THEN /\ last' = WalletEvent("deposit_funds", "call", user, args, Some(Err(InvalidAmountFormat)))
             /\ UNCHANGED <<ledgerVars, walletVars>>
        ELSE /\ HasFreeSlot
             /\ CallLedgerTransfer("deposit_funds", user, amount, amount_satoshis[1], <<>>,
                                   TransferArgs(DefaultAccount(backend), amount, Some(WALLET_FEE)))
             /\ last' = WalletEvent("deposit_funds", "call", user, args, None)
             /\ UNCHANGED <<ledgerVars, USER_BALANCES, STABLE_TRANSACTIONS,
                            STABLE_TRANSACTION_COUNTER>>

(* Mutant: the balance is set to the amount, whatever it was *)
deposit_funds_ok_overwrites(s, block_index) ==
    LET c == calls[s]
        current_balance == 0
        new_balance == current_balance + c.amount_u64
    IN  /\ USER_BALANCES' = Insert(USER_BALANCES, c.user, new_balance)
        /\ store_custodial_transaction("Deposit", Some(c.user), None, Some(c.amount_u64),
                                       Some(c.amount), "Confirmed", Some(block_index))
        /\ last' = WalletEvent("deposit_funds", "reply", c.user,
                      [amount |-> c.amount, current_balance |-> current_balance,
                       new_balance |-> new_balance],
                      Some(Ok(block_index)))

(* deposit_funds, reply Ok((Ok(block_index),)): reads the balance at this point *)
deposit_funds_ok(s, block_index) ==
    LET c == calls[s]
        current_balance == get_virtual_balance(c.user)
        new_balance == u64_add(current_balance, c.amount_u64)
    IN  /\ USER_BALANCES' = Insert(USER_BALANCES, c.user, new_balance)
        /\ store_custodial_transaction("Deposit", Some(c.user), None, Some(c.amount_u64),
                                       Some(c.amount), "Confirmed", Some(block_index))
        /\ last' = WalletEvent("deposit_funds", "reply", c.user,
                      [amount |-> c.amount, current_balance |-> current_balance,
                       new_balance |-> new_balance],
                      Some(Ok(block_index)))

deposit_funds_err(s, transfer_error) ==
    LET c == calls[s]
    IN  /\ store_custodial_transaction("Deposit", Some(c.user), None, Some(c.amount_u64),
                                       Some(c.amount), "Failed", None)
        /\ last' = WalletEvent("deposit_funds", "reply", c.user, [amount |-> c.amount],
                      Some(Err(TransferFailed(transfer_error))))
        /\ UNCHANGED USER_BALANCES

deposit_funds_call_failed(s) ==
    LET c == calls[s]
    IN  /\ last' = WalletEvent("deposit_funds", "reply", c.user, [amount |-> c.amount],
                      Some(Err(CallFailed)))
        /\ UNCHANGED <<USER_BALANCES, STABLE_TRANSACTIONS, STABLE_TRANSACTION_COUNTER>>

(* `current_balance + amount_u64` panicking after the await: nothing is written *)
deposit_funds_panic(s) ==
    /\ UNCHANGED <<USER_BALANCES, STABLE_TRANSACTIONS, STABLE_TRANSACTION_COUNTER>>
    /\ last' = WalletEvent("deposit_funds", "reply", calls[s].user,
                           [amount |-> calls[s].amount], Some(Trap))

deposit_funds_reply(s) ==
    LET result == calls[s].reply
    IN  /\ calls' = [calls EXCEPT ![s] = Idle]
        /\ UNCHANGED ledgerVars
        /\ IF result.tag = "Ok" /\ result.value.tag = "Ok"
           THEN \E outcome \in overflow_outcomes(get_virtual_balance(calls[s].user),
                                                  calls[s].amount_u64) :
                    IF outcome = "panic"
                    THEN deposit_funds_panic(s)
                    ELSE deposit_funds_ok(s, result.value.value)
           ELSE IF result.tag = "Ok"
           THEN deposit_funds_err(s, result.value.error)
           ELSE deposit_funds_call_failed(s)

(* Mutant: the balance of the sender is not checked *)
virtual_transfer_balances_unchecked(balances, from_user, to_user, amount_u64) ==
    LET from_balance == unwrap_or(Get(balances, from_user), 0)
        to_balance == unwrap_or(Get(balances, to_user), 0)
    IN  [result |-> Ok(<<>>),
         balances |-> Insert(Insert(balances, from_user, from_balance - amount_u64),
                             to_user, to_balance + amount_u64)]

(* Mutant: the receiver is not credited *)
virtual_transfer_balances_no_credit(balances, from_user, to_user, amount_u64) ==
    LET from_balance == unwrap_or(Get(balances, from_user), 0)
    IN  IF from_balance < amount_u64
        THEN [result |-> Err(InsufficientVirtualBalance(from_balance, amount_u64)),
              balances |-> balances]
        ELSE [result |-> Ok(<<>>),
              balances |-> Insert(balances, from_user, from_balance - amount_u64)]

(* virtual_transfer's balance update crediting the receiver although it refuses *)
virtual_transfer_balances_credit_on_error(balances, from_user, to_user, amount_u64) ==
    LET from_balance == unwrap_or(Get(balances, from_user), 0)
        to_balance == unwrap_or(Get(balances, to_user), 0)
    IN  IF from_balance < amount_u64
        THEN [result |-> Err(InsufficientVirtualBalance(from_balance, amount_u64)),
              balances |-> Insert(balances, to_user, u64_add(to_balance, amount_u64))]
        ELSE [result |-> Ok(<<>>),
              balances |-> Insert(Insert(balances, from_user, from_balance - amount_u64),
                                  to_user, u64_add(to_balance, amount_u64))]

(* The balance update of virtual_transfer, inside one borrow of USER_BALANCES *)
virtual_transfer_balances(balances, from_user, to_user, amount_u64) ==
    LET from_balance == unwrap_or(Get(balances, from_user), 0)
        to_balance == unwrap_or(Get(balances, to_user), 0)
    IN  IF from_balance < amount_u64
        THEN [result |-> Err(InsufficientVirtualBalance(from_balance, amount_u64)),
              balances |-> balances]
        ELSE [result |-> Ok(<<>>),
              balances |-> Insert(Insert(balances, from_user, from_balance - amount_u64),
                                  to_user, u64_add(to_balance, amount_u64))]

(* Mutant: the self-transfer test is missing *)
is_self_transfer_never(from_user, to_user) == FALSE

(* The self-transfer test of virtual_transfer *)
is_self_transfer(from_user, to_user) == from_user = to_user

(* virtual_transfer has no await: it is one message *)
virtual_transfer(from_user, to_user, amount) ==
    LET amount_satoshis == to_u64_digits(amount)
        args == [to_user |-> to_user, amount |-> amount]
    IN  /\ UNCHANGED <<ledgerVars, calls>>
        /\ IF Len(amount_satoshis) # 1
           THEN /\ last' = WalletEvent("virtual_transfer", "call", from_user, args,
                              Some(Err(InvalidAmountFormat)))
                /\ UNCHANGED <<USER_BALANCES, STABLE_TRANSACTIONS, STABLE_TRANSACTION_COUNTER>>
           ELSE IF is_self_transfer(from_user, to_user)
           THEN /\ last' = WalletEvent("virtual_transfer", "call", from_user, args,
                              Some(Err(CannotTransferToYourself)))
                /\ UNCHANGED <<USER_BALANCES, STABLE_TRANSACTIONS, STABLE_TRANSACTION_COUNTER>>
           ELSE LET amount_u64 == amount_satoshis[1]
                    r == virtual_transfer_balances(USER_BALANCES, from_user, to_user, amount_u64)
                    credit == IF r.result.tag = "Ok"
                              THEN overflow_outcomes(get_virtual_balance(to_user), amount_u64)
                              ELSE {"exact"}
                IN  \E outcome \in credit :
                      IF outcome = "panic"
                      THEN /\ last' = WalletEvent("virtual_transfer", "call", from_user, args,
                                                  Some(Trap))
                           /\ UNCHANGED <<USER_BALANCES, STABLE_TRANSACTIONS,
                                          STABLE_TRANSACTION_COUNTER>>
                      ELSE
                    /\ USER_BALANCES' = r.balances
                    /\ IF r.result.tag = "Ok"
                       THEN /\ store_custodial_transaction("Send", Some(from_user), Some(to_user),
                                                           Some(amount_u64), None, "Confirmed", None)
                            /\ last' = WalletEvent("virtual_transfer", "call", from_user, args,
                                          Some(Ok(STABLE_TRANSACTION_COUNTER')))
                       ELSE /\ store_custodial_transaction("Send", Some(from_user), Some(to_user),
                                                           Some(amount_u64), None, "Failed", None)
                            /\ last' = WalletEvent("virtual_transfer", "call", from_user, args,
                                          Some(Err(r.result.error)))

ReserveStatus(total_virtual_balances, backend_actual_balance, reserve_ratio, is_solvent) == [total_virtual_balances |-> total_virtual_balances, backend_actual_balance |-> backend_actual_balance, reserve_ratio |-> reserve_ratio, is_solvent |-> is_solvent]

(* get_reserve_status: a query.  The f64 ratio is kept as the fraction *)
(* <<numerator, denominator>>; 1.0 is <<1, 1>>                        *)
get_reserve_status ==
    LET total_virtual == SumValues(USER_BALANCES) % U64_LIMIT
        backend_actual == 0
        reserve_ratio == IF total_virtual > 0 THEN <<backend_actual, total_virtual>>
                         ELSE <<1, 1>>
    IN  ReserveStatus(total_virtual, backend_actual, reserve_ratio,
                      backend_actual >= total_virtual)

----------------------------------------------------------------------------
(* backend: operations on the caller's personal funds and the legacy log *)

(* generate_subaccount_for_user: SHA-256 of the principal and a fixed tag, *)
(* one distinct sub-account for each principal                             *)
generate_subaccount_for_user(user) == <<"ckTestBTC_custodial_account", user>>

(* custodial_account of get_wallet_status and deposit_to_custody *)
CustodialAccount(user) == Account(backend, Some(generate_subaccount_for_user(user)))

Transaction(id, tx_type, token, amount, from, to, status, block_index) == [id |-> id, tx_type |-> tx_type, token |-> token, amount |-> amount, from |-> from, to |-> to, status |-> status, block_index |-> block_index]

(* Mutant: the record is put in front of the log *)
store_transaction_in_front(tx_type, token, amount, from, to, status, block_index) ==
    /\ TRANSACTION_COUNTER' = TRANSACTION_COUNTER + 1
    /\ TRANSACTIONS' = <<Transaction(TRANSACTION_COUNTER + 1, tx_type, token, amount, from, to,
                                     status, block_index)>> \o TRANSACTIONS

(* store_transaction: bumps the counter, pushes the record, returns the id *)
store_transaction(tx_type, token, amount, from, to, status, block_index) ==
    /\ TRANSACTION_COUNTER' = TRANSACTION_COUNTER + 1
    /\ TRANSACTIONS' = Append(TRANSACTIONS,
            Transaction(TRANSACTION_COUNTER + 1, tx_type, token, amount, from, to,
                        status, block_index))

(* ic_cdk::call(token_canister, ledger_method, args).await in the context s; *)
(* step names the await of the method the context is suspended at           *)
CallLedger(s, method, user, amount, step, ledger_method, args, locals) ==
    calls' = [calls EXCEPT ![s] =
                [state |-> "called", method |-> method, user |-> user, amount |-> amount,
                 step |-> step, ledger_method |-> ledger_method, args |-> args,
                 locals |-> locals]]

(* The method returns and its call context is dropped *)
Return(s, method, user, args, ret) ==
    /\ calls' = [calls EXCEPT ![s] = Idle]
    /\ last' = WalletEvent(method, "reply", user, args, Some(ret))

FailedToCheckBalance == [kind |-> "Failed to check balance"]
InsufficientPersonalBalance(balance, needed) ==
    [kind |-> "Insufficient personal balance", balance |-> balance, needed |-> needed]
DepositReceipt(block_index, amount_deposited, new_custodial_balance, remaining_personal_balance) == [block_index |-> block_index, amount_deposited |-> amount_deposited, new_custodial_balance |-> new_custodial_balance, remaining_personal_balance |-> remaining_personal_balance]

(* deposit_to_custody up to the await of the balance query *)
deposit_to_custody(user, amount) ==
    /\ HasFreeSlot
    /\ CallLedger(FreeSlot, "deposit_to_custody", user, amount, "personal_balance",
                  "icrc1_balance_of", DefaultAccount(user), <<>>)
    /\ last' = WalletEvent("deposit_to_custody", "call", user, [amount |-> amount], None)
    /\ UNCHANGED <<ledgerVars, USER_BALANCES, STABLE_TRANSACTIONS, STABLE_TRANSACTION_COUNTER,
                   legacyVars, minterVars, tokenVars>>

(* Mutant: the fee is left out of what the caller needs *)
total_needed_without_fee(amount, fee) == amount

(* "Check if user has enough balance (amount + fee)" *)
total_needed(amount, fee) == amount + fee

(* deposit_to_custody from the reply of the balance query to the await of the transfer *)
deposit_to_custody_balance(s) ==
    LET c == calls[s]
        balance_result == c.reply
        args == [amount |-> c.amount, step |-> c.step]
        fee == WALLET_FEE
        needed == total_needed(c.amount, fee)
    IN  /\ UNCHANGED <<TRANSACTIONS, TRANSACTION_COUNTER>>
        /\ IF balance_result.tag = "Err"
           THEN Return(s, "deposit_to_custody", c.user, args, Err(FailedToCheckBalance))
           ELSE IF balance_result.value < needed
           THEN Return(s, "deposit_to_custody", c.user, args,
                       Err(InsufficientPersonalBalance(balance_result.value, needed)))
           ELSE /\ CallLedger(s, "deposit_to_custody", c.user, c.amount, "transfer",
                              "icrc1_transfer",
                              TransferArgs(CustodialAccount(c.user), c.amount, Some(fee)), <<>>)
                /\ last' = WalletEvent("deposit_to_custody", "reply", c.user, args, None)

(* Mutant: a failed transfer is sent again *)
deposit_to_custody_transfer_again(s) ==
    LET c == calls[s]
        transfer_result == c.reply
        args == [amount |-> c.amount, step |-> c.step]
    IN  /\ UNCHANGED <<TRANSACTIONS, TRANSACTION_COUNTER>>
        /\ IF transfer_result.tag = "Ok" /\ transfer_result.value.tag = "Ok"
           THEN /\ CallLedger(s, "deposit_to_custody", c.user, c.amount, "new_custodial_balance",
                              "icrc1_balance_of", CustodialAccount(c.user),
                              [block_index |-> transfer_result.value.value])
                /\ last' = WalletEvent("deposit_to_custody", "reply", c.user, args, None)
           ELSE /\ CallLedger(s, "deposit_to_custody", c.user, c.amount, "transfer",
                              "icrc1_transfer", c.args, <<>>)
                /\ last' = WalletEvent("deposit_to_custody", "reply", c.user, args, None)

(* deposit_to_custody from the reply of the transfer to the await of the next query *)
deposit_to_custody_transfer(s) ==
    LET c == calls[s]
        transfer_result == c.reply
        args == [amount |-> c.amount, step |-> c.step]
    IN  /\ UNCHANGED <<TRANSACTIONS, TRANSACTION_COUNTER>>
        /\ IF transfer_result.tag = "Ok" /\ transfer_result.value.tag = "Ok"
           THEN /\ CallLedger(s, "deposit_to_custody", c.user, c.amount, "new_custodial_balance",
                              "icrc1_balance_of", CustodialAccount(c.user),
                              [block_index |-> transfer_result.value.value])
                /\ last' = WalletEvent("deposit_to_custody", "reply", c.user, args, None)
           ELSE IF transfer_result.tag = "Ok"
           THEN Return(s, "deposit_to_custody", c.user, args,
                       Err(TransferFailed(transfer_result.value.error)))
           ELSE Return(s, "deposit_to_custody", c.user, args, Err(CallFailed))

(* deposit_to_custody from the reply of the custodial balance query to the await *)
(* of the personal balance query                                                *)
deposit_to_custody_custodial_balance(s) ==
    LET c == calls[s]
        args == [amount |-> c.amount, step |-> c.step]
    IN  /\ UNCHANGED <<TRANSACTIONS, TRANSACTION_COUNTER>>
        /\ CallLedger(s, "deposit_to_custody", c.user, c.amount, "remaining_personal_balance",
                      "icrc1_balance_of", DefaultAccount(c.user),
                      [block_index |-> c.locals.block_index,
                       custodial_balance_result |-> c.reply])
        /\ last' = WalletEvent("deposit_to_custody", "reply", c.user, args, None)

(* deposit_to_custody from the reply of the last query to its return *)
deposit_to_custody_receipt(s) ==
    LET c == calls[s]
        args == [amount |-> c.amount, step |-> c.step]
        custodial_balance_result == c.locals.custodial_balance_result
        personal_balance_result == c.reply
        new_custodial_balance ==
            IF custodial_balance_result.tag = "Ok" THEN custodial_balance_result.value ELSE 0
        remaining_personal_balance ==
            IF personal_balance_result.tag = "Ok" THEN personal_balance_result.value ELSE 0
    IN  /\ store_transaction("Deposit", "ckTestBTC", c.amount, c.user, "Custodial Wallet",
                             "Confirmed", Some(c.locals.block_index))
        /\ Return(s, "deposit_to_custody", c.user, args,
                  Ok(DepositReceipt(c.locals.block_index, c.amount, new_custodial_balance,
                                    remaining_personal_balance)))

(* Mutant: the deposit is also credited to the caller's virtual balance *)
deposit_to_custody_reply_credits(s) ==
    /\ UNCHANGED <<ledgerVars, STABLE_TRANSACTIONS, STABLE_TRANSACTION_COUNTER,
                   local_development, minterVars, tokenVars>>
    /\ USER_BALANCES' =
          IF calls[s].step = "remaining_personal_balance"
          THEN Insert(USER_BALANCES, calls[s].user,
                      get_virtual_balance(calls[s].user) + calls[s].amount)
          ELSE USER_BALANCES
    /\ IF calls[s].step = "personal_balance" THEN deposit_to_custody_balance(s)
       ELSE IF calls[s].step = "transfer" THEN deposit_to_custody_transfer(s)
       ELSE IF calls[s].step = "new_custodial_balance" THEN deposit_to_custody_custodial_balance(s)
       ELSE deposit_to_custody_receipt(s)

(* deposit_to_custody resumed after one of its awaits *)
deposit_to_custody_reply(s) ==
    /\ UNCHANGED <<ledgerVars, USER_BALANCES, STABLE_TRANSACTIONS, STABLE_TRANSACTION_COUNTER,
                   local_development, minterVars, tokenVars>>
    /\ IF calls[s].step = "personal_balance" THEN deposit_to_custody_balance(s)
       ELSE IF calls[s].step = "transfer" THEN deposit_to_custody_transfer(s)
       ELSE IF calls[s].step = "new_custodial_balance" THEN deposit_to_custody_custodial_balance(s)
       ELSE deposit_to_custody_receipt(s)

(* get_wallet_status: two balance queries, one after the other *)
WalletStatus(custodial_balance, personal_balance, total_available, can_deposit) == [custodial_balance |-> custodial_balance, personal_balance |-> personal_balance, total_available |-> total_available, can_deposit |-> can_deposit]

(* get_wallet_status up to the await of the custodial balance query *)
get_wallet_status(user) ==
    /\ HasFreeSlot
    /\ CallLedger(FreeSlot, "get_wallet_status", user, 0, "custodial_balance",
                  "icrc1_balance_of", CustodialAccount(user), <<>>)
    /\ last' = WalletEvent("get_wallet_status", "call", user, <<>>, None)
    /\ UNCHANGED <<ledgerVars, USER_BALANCES, STABLE_TRANSACTIONS, STABLE_TRANSACTION_COUNTER,
                   legacyVars, minterVars, tokenVars>>

(* get_wallet_status from the reply of the custodial query to the await of the *)
(* personal balance query                                                      *)
get_wallet_status_custodial(s) ==
    LET c == calls[s]
    IN  /\ CallLedger(s, "get_wallet_status", c.user, 0, "personal_balance",
                      "icrc1_balance_of", DefaultAccount(c.user),
                      [custodial_result |-> c.reply])
        /\ last' = WalletEvent("get_wallet_status", "reply", c.user, [step |-> c.step], None)

(* Mutant: can_deposit is taken from the total *)
wallet_status_of_total(custodial_result, personal_result) ==
    LET custodial_balance == IF custodial_result.tag = "Ok" THEN custodial_result.value ELSE 0
        personal_balance == IF personal_result.tag = "Ok" THEN personal_result.value ELSE 0
        total == custodial_balance + personal_balance
    IN  WalletStatus(custodial_balance, personal_balance, total, total > 0)

(* The status built from the results of the two queries *)
wallet_status_of(custodial_result, personal_result) ==
    LET custodial_balance == IF custodial_result.tag = "Ok" THEN custodial_result.value ELSE 0
        personal_balance == IF personal_result.tag = "Ok" THEN personal_result.value ELSE 0
        total == custodial_balance + personal_balance
        can_deposit == personal_balance > 0
    IN  WalletStatus(custodial_balance, personal_balance, total, can_deposit)

(* get_wallet_status from the reply of the personal query to its return *)
get_wallet_status_personal(s) ==
    LET c == calls[s]
        custodial_result == c.locals.custodial_result
        personal_result == c.reply
    IN  Return(s, "get_wallet_status", c.user,
               [step |-> c.step, custodial_read |-> custodial_result.tag,
                personal_read |-> personal_result.tag],
               Ok(wallet_status_of(custodial_result, personal_result)))

(* get_wallet_status resumed after one of its awaits *)
get_wallet_status_reply(s) ==
    /\ UNCHANGED <<ledgerVars, USER_BALANCES, STABLE_TRANSACTIONS, STABLE_TRANSACTION_COUNTER,
                   legacyVars, minterVars, tokenVars>>
    /\ IF calls[s].step = "custodial_balance" THEN get_wallet_status_custodial(s)
       ELSE get_wallet_status_personal(s)

(* Mutant: every environment counts as local development *)
is_local_development_always == TRUE

(* is_local_development: whether the backend's canister id is a local one *)
is_local_development == local_development

FAUCET_AMOUNT == 100000000

FaucetOnlyLocal == [kind |-> "Faucet only available in local development"]
MintFailed(e) == [kind |-> "Mint failed", error |-> e]

(* faucet up to the await of the mint call *)
faucet(user) ==
    IF ~is_local_development
    THEN /\ last' = WalletEvent("faucet", "call", user, <<>>, Some(Err(FaucetOnlyLocal)))
         /\ UNCHANGED <<ledgerVars, walletVars, legacyVars, minterVars, tokenVars>>
    ELSE /\ HasFreeSlot
         /\ CallLedger(FreeSlot, "faucet", user, FAUCET_AMOUNT, "mint", "mint",
                       [to |-> DefaultAccount(user), amount |-> FAUCET_AMOUNT], <<>>)
         /\ last' = WalletEvent("faucet", "call", user, <<>>, None)
         /\ UNCHANGED <<ledgerVars, USER_BALANCES, STABLE_TRANSACTIONS,
                        STABLE_TRANSACTION_COUNTER, legacyVars, minterVars, tokenVars>>

(* faucet from the reply of the mint call to its return *)
faucet_reply(s) ==
    LET c == calls[s]
        result == c.reply
        args == [step |-> c.step]
    IN  /\ UNCHANGED <<ledgerVars, USER_BALANCES, STABLE_TRANSACTIONS,
                       STABLE_TRANSACTION_COUNTER, local_development, minterVars, tokenVars>>
        /\ IF result.tag = "Ok" /\ result.value.tag = "Ok"
           THEN /\ store_transaction("Mint", "ckTestBTC", c.amount, "faucet", c.user,
                                     "Confirmed", Some(result.value.value))
                /\ Return(s, "faucet", c.user, args, Ok("Successfully minted 1 ckTestBTC"))
           ELSE IF result.tag = "Ok"
           THEN /\ UNCHANGED <<TRANSACTIONS, TRANSACTION_COUNTER>>
                /\ Return(s, "faucet", c.user, args, Err(MintFailed(result.value.error)))
           ELSE /\ UNCHANGED <<TRANSACTIONS, TRANSACTION_COUNTER>>
                /\ Return(s, "faucet", c.user, args, Err(CallFailed))

(* mock minter: retrieve_btc *)

MIN_WITHDRAWAL_AMOUNT == 1000

(* str::starts_with, over strings held as sequences of characters *)
starts_with(str, prefix) ==
    Len(str) >= Len(prefix) /\ SubSeq(str, 1, Len(prefix)) = prefix

(* The address check made by the backend and again by the minter *)
has_testnet_prefix(address) ==
    \/ starts_with(address, <<"t", "b", "1">>)
    \/ starts_with(address, <<"2">>)
    \/ starts_with(address, <<"m">>)
    \/ starts_with(address, <<"n">>)

MalformedAddress == [kind |-> "MalformedAddress", message |-> "Invalid TestBTC address format"]
AmountTooLow(minimum) == [kind |-> "AmountTooLow", minimum |-> minimum]
RetrieveBtcOk(block_index) == [block_index |-> block_index]

(* retrieve_btc handing out the current block index again *)
retrieve_btc_reusing_index(args) ==
    IF ~has_testnet_prefix(args.address)
    THEN [ret |-> Err(MalformedAddress), block_index |-> MINTER_BLOCK_INDEX,
          withdrawals |-> WITHDRAWAL_REQUESTS]
    ELSE IF args.amount < MIN_WITHDRAWAL_AMOUNT
    THEN [ret |-> Err(AmountTooLow(MIN_WITHDRAWAL_AMOUNT)), block_index |-> MINTER_BLOCK_INDEX,
          withdrawals |-> WITHDRAWAL_REQUESTS]
    ELSE LET block_index == MINTER_BLOCK_INDEX
         IN  [ret |-> Ok(RetrieveBtcOk(block_index)), block_index |-> block_index,
              withdrawals |-> Insert(WITHDRAWAL_REQUESTS, block_index, "Pending")]

(* retrieve_btc: the response and the minter state it leaves *)
retrieve_btc(args) ==
    IF ~has_testnet_prefix(args.address)
    THEN [ret |-> Err(MalformedAddress), block_index |-> MINTER_BLOCK_INDEX,
          withdrawals |-> WITHDRAWAL_REQUESTS]
    ELSE IF args.amount < MIN_WITHDRAWAL_AMOUNT
    THEN [ret |-> Err(AmountTooLow(MIN_WITHDRAWAL_AMOUNT)), block_index |-> MINTER_BLOCK_INDEX,
          withdrawals |-> WITHDRAWAL_REQUESTS]
    ELSE LET block_index == MINTER_BLOCK_INDEX + 1
         IN  [ret |-> Ok(RetrieveBtcOk(block_index)), block_index |-> block_index,
              withdrawals |-> Insert(WITHDRAWAL_REQUESTS, block_index, "Pending")]

(* backend: withdraw_testbtc *)

InvalidAddressFormat == [kind |-> "Invalid TestBTC address format"]
MinterNotConfigured == [kind |-> "Minter canister not configured for IC deployment"]
WithdrawalFailed(e) == [kind |-> "Withdrawal failed", error |-> e]

(* ic_cdk::call(minter_canister, minter_method, args).await in the context s *)
CallMinter(s, method, user, amount, step, minter_method, args, locals) ==
    calls' = [calls EXCEPT ![s] =
                [state |-> "called", method |-> method, user |-> user, amount |-> amount,
                 step |-> step, ledger_method |-> "none", minter_method |-> minter_method,
                 args |-> args, locals |-> locals]]

(* withdraw_testbtc up to the await of the minter call.  to_u64_digits()[0] *)
(* panics for the amount 0: the message traps and leaves no trace          *)
withdraw_testbtc(user, address, amount) ==
    LET args == [address |-> address, amount |-> amount]
        unchanged == UNCHANGED <<ledgerVars, walletVars, legacyVars, minterVars, tokenVars>>
    IN  IF ~has_testnet_prefix(address)
        THEN /\ last' = WalletEvent("withdraw_testbtc", "call", user, args,
                                    Some(Err(InvalidAddressFormat)))
             /\ unchanged
        ELSE IF ~is_local_development
        THEN /\ last' = WalletEvent("withdraw_testbtc", "call", user, args,
                                    Some(Err(MinterNotConfigured)))
             /\ unchanged
        ELSE IF Len(to_u64_digits(amount)) = 0
        THEN /\ last' = WalletEvent("withdraw_testbtc", "call", user, args, Some(Trap))
             /\ unchanged
        ELSE /\ HasFreeSlot
             /\ CallMinter(FreeSlot, "withdraw_testbtc", user, amount, "retrieve_btc",
                           "retrieve_btc",
                           [address |-> address, amount |-> to_u64_digits(amount)[1]],
                           [address |-> address])
             /\ last' = WalletEvent("withdraw_testbtc", "call", user, args, None)
             /\ UNCHANGED <<ledgerVars, USER_BALANCES, STABLE_TRANSACTIONS,
                            STABLE_TRANSACTION_COUNTER, legacyVars, minterVars, tokenVars>>

(* withdraw_testbtc from the reply of the minter call to its return *)
withdraw_testbtc_reply(s) ==
    LET c == calls[s]
        result == c.reply
        args == [address |-> c.locals.address, amount |-> c.amount]
    IN  /\ UNCHANGED <<ledgerVars, USER_BALANCES, STABLE_TRANSACTIONS,
                       STABLE_TRANSACTION_COUNTER, local_development, minterVars, tokenVars>>
        /\ IF result.tag = "Ok" /\ result.value.tag = "Ok"
           THEN /\ store_transaction("Withdraw", "ckTestBTC", c.amount, c.user,
                                     c.locals.address, "Pending",
                                     Some(result.value.value.block_index))
                /\ Return(s, "withdraw_testbtc", c.user, args,
                          Ok(result.value.value.block_index))
           ELSE IF result.tag = "Ok"
           THEN /\ store_transaction("Withdraw", "ckTestBTC", c.amount, c.user,
                                     c.locals.address, "Failed", None)
                /\ Return(s, "withdraw_testbtc", c.user, args,
                          Err(WithdrawalFailed(result.value.error)))
           ELSE /\ UNCHANGED <<TRANSACTIONS, TRANSACTION_COUNTER>>
                /\ Return(s, "withdraw_testbtc", c.user, args, Err(CallFailed))

(* transfer_icp in local development: the transfer is only recorded.  In a     *)
(* deployed environment the method calls the ICP ledger, a canister outside   *)
(* this repository; that branch is not taken here                             *)
transfer_icp(user, to_principal, amount) ==
    /\ is_local_development
    /\ store_transaction("Send", "ICP", amount, user, to_principal, "Confirmed", Some(1))
    /\ last' = WalletEvent("transfer_icp", "call", user,
                           [to_principal |-> to_principal, amount |-> amount], Some(Ok(1)))
    /\ UNCHANGED <<ledgerVars, walletVars, local_development, minterVars, tokenVars>>

(* History queries *)
HISTORY_LIMIT == 100

Reverse(seq) == [i \in 1..Len(seq) |-> seq[Len(seq) + 1 - i]]
Take(seq, n) == SubSeq(seq, 1, IF Len(seq) < n THEN Len(seq) ELSE n)

(* Mutant: the first records of the log are returned, oldest first *)
get_transaction_history_oldest_first == Take(TRANSACTIONS, HISTORY_LIMIT)

(* get_transaction_history: iter().rev().take(100) *)
get_transaction_history == Take(Reverse(TRANSACTIONS), HISTORY_LIMIT)

(* get_custodial_transaction_history: the last 100 records, reversed *)
get_custodial_transaction_history ==
    LET len == Len(STABLE_TRANSACTIONS)
        start_idx == IF len > HISTORY_LIMIT THEN len - HISTORY_LIMIT ELSE 0
        result == SubSeq(STABLE_TRANSACTIONS, start_idx + 1, len)
    IN  Reverse(result)

----------------------------------------------------------------------------
(* Inputs explored *)

Amounts == {0, 1}                   \* amounts of the wallet calls
WalletFunding == {12, 33}           \* amounts minted to the wallet's ledger account
LedgerCallers == {"u1", "u2"}       \* principals calling the ledger directly
LedgerAccounts == {DefaultAccount(p) : p \in LedgerCallers}
LedgerAmounts == {1, 2}
Fees == {None, Some(TRANSFER_FEE), Some(0)}
MintAmounts == {22}
ApproveAmounts == {12, 23}
ExpiresAt == {Some(1)}
DepositAmounts == {1, 6}             \* amounts of deposit_to_custody
PersonalFunding == {15}             \* amounts minted to a user's personal account
CustodyFunding == {7}               \* amounts minted to a user's custody sub-account
RetryWalletFunding == {22}          \* covers one deposit_funds and one deposit_to_custody
RetryPersonalFunding == {11}        \* what deposit_to_custody(1) asks of the caller
CollateralFunding == {21}           \* what the wallet holds before two deposits of 1
BtcAddresses == {<<"t", "b", "1", "q">>, <<"b", "c", "1", "q">>}
BtcAmounts == {0, 999, 1000}        \* amounts of withdraw_testbtc

NumCalled == Cardinality({s \in Slots : calls[s].state = "called"})
LedgerCallAllowed == BLOCK_INDEX + NumCalled < MaxBlocks
WalletCallAllowed == STABLE_TRANSACTION_COUNTER + NumSuspended < MaxTx
HistoryCallAllowed == TRANSACTION_COUNTER + STABLE_TRANSACTION_COUNTER < MaxHistory
LegacyCallAllowed == TRANSACTION_COUNTER + NumSuspended < MaxTx
StatusCallAllowed == NumSuspended < MaxCustodyCalls
CustodyCallAllowed == NumSuspended < MaxCustodyCalls /\ BLOCK_INDEX + NumSuspended < MaxBlocks
RetryCallAllowed == CustodyCallAllowed /\ WalletCallAllowed

----------------------------------------------------------------------------
(* Initial state: both canisters freshly installed *)

Init ==
    /\ BALANCES = EmptyMap
    /\ ALLOWANCES = EmptyMap
    /\ TOTAL_SUPPLY = 0
    /\ BLOCK_INDEX = 0
    /\ USER_BALANCES = EmptyMap
    /\ STABLE_TRANSACTIONS = <<>>
    /\ STABLE_TRANSACTION_COUNTER = 0
    /\ calls = [s \in Slots |-> Idle]
    /\ TRANSACTIONS = <<>>
    /\ TRANSACTION_COUNTER = 0
    /\ local_development = TRUE
    /\ MINTER_BLOCK_INDEX = 0
    /\ WITHDRAWAL_REQUESTS = EmptyMap
    /\ KNOWN_UTXOS = EmptyMap
    /\ PENDING_UTXOS = EmptyMap
    /\ LOCAL_TOKEN_BALANCES = EmptyMap
    /\ LOCAL_TOKEN_TRANSACTION_COUNTER = 0
    /\ last = [canister |-> "none", method |-> "init"]

----------------------------------------------------------------------------
(* Update calls made on the ledger directly by a principal *)

Icrc1Transfer ==
    \E caller \in LedgerCallers, to \in LedgerAccounts, amount \in LedgerAmounts, fee \in Fees :
        LET args == TransferArgs(to, amount, fee)
            o == icrc1_transfer(caller, args)
        IN  /\ LedgerCallAllowed
            /\ LedgerCommit(o)
            /\ last' = LedgerEvent("icrc1_transfer", caller, args, o.ret)
            /\ UNCHANGED <<walletVars, legacyVars, minterVars, tokenVars>>

Icrc2Approve ==
    \E caller \in LedgerCallers, spender \in LedgerAccounts, amount \in ApproveAmounts,
       fee \in Fees, expires_at \in ExpiresAt :
        LET args == [from_subaccount |-> None, spender |-> spender, amount |-> amount,
                     fee |-> fee, expires_at |-> expires_at]
            o == icrc2_approve(caller, args)
        IN  /\ LedgerCallAllowed
            /\ LedgerCommit(o)
            /\ last' = LedgerEvent("icrc2_approve", caller, args, o.ret)
            /\ UNCHANGED <<walletVars, legacyVars, minterVars, tokenVars>>

Icrc2TransferFrom ==
    \E caller \in LedgerCallers, from \in LedgerAccounts, to \in LedgerAccounts,
       amount \in LedgerAmounts, fee \in Fees :
        LET args == [spender_subaccount |-> None, from |-> from, to |-> to,
                     amount |-> amount, fee |-> fee]
            o == icrc2_transfer_from(caller, args)
        IN  /\ LedgerCallAllowed
            /\ LedgerCommit(o)
            /\ last' = LedgerEvent("icrc2_transfer_from", caller, args, o.ret)
            /\ UNCHANGED <<walletVars, legacyVars, minterVars, tokenVars>>

MintBy(callers, tos, amounts) ==
    \E caller \in callers, to \in tos, amount \in amounts :
        LET o == mint(caller, to, amount)
        IN  /\ LedgerCallAllowed
            /\ LedgerCommit(o)
            /\ last' = LedgerEvent("mint", caller, [to |-> to, amount |-> amount], o.ret)
            /\ UNCHANGED <<walletVars, legacyVars, minterVars, tokenVars>>

Mint == MintBy(LedgerCallers \cup {minter, backend}, LedgerAccounts, MintAmounts)

(* The wallet's own ledger account is funded *)
MintToWallet == MintBy({minter}, {DefaultAccount(backend)}, {a \in WalletFunding : TOTAL_SUPPLY + a <= MaxSupply})

(* The ledger executes an icrc1_transfer sent by the backend and replies *)
LedgerExecutesCall ==
    \E s \in Slots :
        /\ calls[s].state = "called"
        /\ "ledger_method" \notin DOMAIN calls[s]
        /\ LET o == icrc1_transfer(backend, calls[s].args)
           IN  /\ LedgerCommit(o)
               /\ calls' = [calls EXCEPT ![s] =
                              [calls[s] EXCEPT !.state = "replied"] @@ [reply |-> Ok(o.ret)]]
               /\ last' = LedgerEvent("icrc1_transfer", backend, calls[s].args, o.ret)
        /\ UNCHANGED <<USER_BALANCES, STABLE_TRANSACTIONS, STABLE_TRANSACTION_COUNTER, legacyVars, minterVars, tokenVars>>

(* The call is rejected: the ledger does not execute it *)
CallRejected ==
    \E s \in Slots :
        /\ calls[s].state = "called"
        /\ calls' = [calls EXCEPT ![s] =
                       [calls[s] EXCEPT !.state = "replied"] @@ [reply |-> Err("reject")]]
        /\ last' = [canister |-> "system", method |-> "reject"]
        /\ UNCHANGED <<ledgerVars, USER_BALANCES, STABLE_TRANSACTIONS, STABLE_TRANSACTION_COUNTER,
                       legacyVars, minterVars, tokenVars>>

(* Update calls made on the backend by a user *)

WithdrawFunds ==
    \E user \in Users, amount \in Amounts :
        /\ WalletCallAllowed /\ LedgerCallAllowed
        /\ withdraw_funds(user, amount)
        /\ UNCHANGED <<legacyVars, minterVars, tokenVars>>

WithdrawFundsReply ==
    \E s \in Slots :
        /\ calls[s].state = "replied" /\ calls[s].method = "withdraw_funds"
        /\ withdraw_funds_reply(s)
        /\ UNCHANGED <<legacyVars, minterVars, tokenVars>>

DepositFunds ==
    \E user \in Users, amount \in Amounts :
        /\ WalletCallAllowed /\ LedgerCallAllowed
        /\ deposit_funds(user, amount)
        /\ UNCHANGED <<legacyVars, minterVars, tokenVars>>

DepositFundsReply ==
    \E s \in Slots :
        /\ calls[s].state = "replied" /\ calls[s].method = "deposit_funds"
        /\ deposit_funds_reply(s)
        /\ UNCHANGED <<legacyVars, minterVars, tokenVars>>

VirtualTransfer ==
    \E from_user \in Users, to_user \in Users, amount \in Amounts :
        /\ WalletCallAllowed
        /\ virtual_transfer(from_user, to_user, amount)
        /\ UNCHANGED <<legacyVars, minterVars, tokenVars>>

(* The minter funds a user's personal ledger account *)
MintToUser == MintBy({minter}, LedgerAccounts, {a \in PersonalFunding : TOTAL_SUPPLY + a <= MaxSupply})

(* The ledger executes a call sent by deposit_to_custody or faucet and replies *)
LedgerExecutesCustodyCall ==
    \E s \in Slots :
        /\ calls[s].state = "called"
        /\ "ledger_method" \in DOMAIN calls[s]
        /\ calls[s].ledger_method # "none"
        /\ LET c == calls[s]
           IN  IF c.ledger_method = "icrc1_balance_of"
               THEN /\ UNCHANGED ledgerVars
                    /\ calls' = [calls EXCEPT ![s] =
                                   [c EXCEPT !.state = "replied"]
                                       @@ [reply |-> Ok(icrc1_balance_of(c.args))]]
                    /\ last' = LedgerEvent("icrc1_balance_of", backend, c.args,
                                           icrc1_balance_of(c.args))
               ELSE LET o == IF c.ledger_method = "mint"
                             THEN mint(backend, c.args.to, c.args.amount)
                             ELSE icrc1_transfer(backend, c.args)
                    IN  /\ LedgerCommit(o)
                        /\ calls' = [calls EXCEPT ![s] =
                                       [c EXCEPT !.state = "replied"] @@ [reply |-> Ok(o.ret)]]
                        /\ last' = LedgerEvent(c.ledger_method, backend, c.args, o.ret)
        /\ UNCHANGED <<USER_BALANCES, STABLE_TRANSACTIONS, STABLE_TRANSACTION_COUNTER, legacyVars, minterVars, tokenVars>>

DepositToCustody ==
    \E user \in Users, amount \in DepositAmounts :
        /\ CustodyCallAllowed
        /\ deposit_to_custody(user, amount)

DepositToCustodyReply ==
    \E s \in Slots :
        /\ calls[s].state = "replied" /\ calls[s].method = "deposit_to_custody"
        /\ deposit_to_custody_reply(s)

Faucet ==
    \E user \in Users :
        /\ CustodyCallAllowed
        /\ faucet(user)

FaucetReply ==
    \E s \in Slots :
        /\ calls[s].state = "replied" /\ calls[s].method = "faucet"
        /\ faucet_reply(s)

GetReserveStatus ==
    /\ \E outcome \in overflow_outcomes(SumValues(USER_BALANCES), 0) :
          last' = WalletEvent("get_reserve_status", "call", None, <<>>,
                              Some(IF outcome = "panic" THEN Trap ELSE get_reserve_status))
    /\ UNCHANGED <<ledgerVars, walletVars, legacyVars, minterVars, tokenVars>>

Next ==
    \/ MintToWallet
    \/ LedgerExecutesCall
    \/ CallRejected
    \/ WithdrawFunds
    \/ WithdrawFundsReply
    \/ DepositFunds
    \/ DepositFundsReply
    \/ VirtualTransfer

Spec == Init /\ [][Next]_vars

(* The ledger alone, called directly *)
LedgerNext ==
    \/ Icrc1Transfer
    \/ Icrc2Approve
    \/ Icrc2TransferFrom
    \/ Mint

LedgerSpec == Init /\ [][LedgerNext]_vars

(* The backend's operations on personal funds, in a local or a deployed environment *)
CustodyInit ==
    /\ BALANCES = EmptyMap
    /\ ALLOWANCES = EmptyMap
    /\ TOTAL_SUPPLY = 0
    /\ BLOCK_INDEX = 0
    /\ USER_BALANCES = EmptyMap
    /\ STABLE_TRANSACTIONS = <<>>
    /\ STABLE_TRANSACTION_COUNTER = 0
    /\ calls = [s \in Slots |-> Idle]
    /\ TRANSACTIONS = <<>>
    /\ TRANSACTION_COUNTER = 0
    /\ local_development \in BOOLEAN
    /\ MINTER_BLOCK_INDEX = 0
    /\ WITHDRAWAL_REQUESTS = EmptyMap
    /\ KNOWN_UTXOS = EmptyMap
    /\ PENDING_UTXOS = EmptyMap
    /\ LOCAL_TOKEN_BALANCES = EmptyMap
    /\ LOCAL_TOKEN_TRANSACTION_COUNTER = 0
    /\ last = [canister |-> "none", method |-> "init"]

CustodyNext ==
    \/ MintToUser
    \/ MintToWallet
    \/ LedgerExecutesCustodyCall
    \/ CallRejected
    \/ DepositToCustody
    \/ DepositToCustodyReply
    \/ Faucet
    \/ FaucetReply

CustodySpec == CustodyInit /\ [][CustodyNext]_vars

(* Long transaction logs and the history queries: the legacy log grows by      *)
(* recorded ICP transfers, the custodial log by virtual transfers that are     *)
(* refused for want of balance                                                 *)
TransferIcp ==
    /\ HistoryCallAllowed
    /\ transfer_icp("u1", "u2", 1)

RefusedVirtualTransfer ==
    /\ HistoryCallAllowed
    /\ virtual_transfer("u1", "u2", 1)
    /\ UNCHANGED <<legacyVars, minterVars, tokenVars>>

GetTransactionHistory ==
    /\ last' = WalletEvent("get_transaction_history", "call", None, <<>>,
                           Some(get_transaction_history))
    /\ UNCHANGED <<ledgerVars, walletVars, legacyVars, minterVars, tokenVars>>

GetCustodialTransactionHistory ==
    /\ last' = WalletEvent("get_custodial_transaction_history", "call", None, <<>>,
                           Some(get_custodial_transaction_history))
    /\ UNCHANGED <<ledgerVars, walletVars, legacyVars, minterVars, tokenVars>>

HistoryNext ==
    \/ TransferIcp
    \/ RefusedVirtualTransfer
    \/ GetTransactionHistory
    \/ GetCustodialTransactionHistory

HistorySpec == Init /\ [][HistoryNext]_vars

(* The wallet status query over funded personal accounts and custody sub-accounts *)
MintToCustody == MintBy({minter}, {CustodialAccount(u) : u \in Users}, {a \in CustodyFunding : TOTAL_SUPPLY + a <= MaxSupply})

GetWalletStatus ==
    \E user \in Users :
        /\ StatusCallAllowed
        /\ get_wallet_status(user)

GetWalletStatusReply ==
    \E s \in Slots :
        /\ calls[s].state = "replied" /\ calls[s].method = "get_wallet_status"
        /\ get_wallet_status_reply(s)

StatusNext ==
    \/ MintToUser
    \/ MintToCustody
    \/ LedgerExecutesCustodyCall
    \/ CallRejected
    \/ GetWalletStatus
    \/ GetWalletStatusReply

StatusSpec == Init /\ [][StatusNext]_vars

(* Writers of the two transaction logs: withdraw_testbtc on the legacy log, *)
(* virtual_transfer on the custodial log                                    *)
WithdrawTestbtc ==
    \E user \in {"u1"}, address \in BtcAddresses, amount \in BtcAmounts :
        /\ LegacyCallAllowed
        /\ withdraw_testbtc(user, address, amount)

(* The minter executes retrieve_btc and replies.  The backend declares the   *)
(* error of the response as text while the minter sends a variant: the error *)
(* response reaches the backend as decoded, or as a failed call when the     *)
(* decoding is refused                                                       *)
MinterExecutesCall ==
    \E s \in Slots :
        /\ calls[s].state = "called"
        /\ calls[s].ledger_method = "none"
        /\ LET c == calls[s]
               o == retrieve_btc(c.args)
           IN  /\ MINTER_BLOCK_INDEX' = o.block_index
               /\ WITHDRAWAL_REQUESTS' = o.withdrawals
               /\ \E reply \in (IF o.ret.tag = "Ok" THEN {Ok(o.ret)}
                                ELSE {Ok(o.ret), Err("decode")}) :
                      calls' = [calls EXCEPT ![s] =
                                  [c EXCEPT !.state = "replied"] @@ [reply |-> reply]]
               /\ last' = [canister |-> "minter", method |-> "retrieve_btc",
                           caller |-> backend, args |-> c.args, ret |-> o.ret]
        /\ UNCHANGED <<ledgerVars, USER_BALANCES, STABLE_TRANSACTIONS,
                       STABLE_TRANSACTION_COUNTER, legacyVars, KNOWN_UTXOS, PENDING_UTXOS,
                       tokenVars>>

VirtualTransferWithoutFunds ==
    /\ WalletCallAllowed
    /\ virtual_transfer("u1", "u2", 1)
    /\ UNCHANGED <<legacyVars, minterVars, tokenVars>>

WithdrawTestbtcReply ==
    \E s \in Slots :
        /\ calls[s].state = "replied" /\ calls[s].method = "withdraw_testbtc"
        /\ withdraw_testbtc_reply(s)

LogNext ==
    \/ WithdrawTestbtc
    \/ MinterExecutesCall
    \/ WithdrawTestbtcReply
    \/ CallRejected
    \/ VirtualTransferWithoutFunds

LogSpec == Init /\ [][LogNext]_vars

(* The three operations that move funds on the ledger, side by side, called *)
(* by one user with one amount                                              *)
RetryWithdrawFunds ==
    /\ RetryCallAllowed
    /\ withdraw_funds("u1", 1)
    /\ UNCHANGED <<legacyVars, minterVars, tokenVars>>

RetryDepositFunds ==
    /\ RetryCallAllowed
    /\ deposit_funds("u1", 1)
    /\ UNCHANGED <<legacyVars, minterVars, tokenVars>>

RetryDepositToCustody ==
    /\ RetryCallAllowed
    /\ deposit_to_custody("u1", 1)

MintRetryWallet == MintBy({minter}, {DefaultAccount(backend)}, {a \in RetryWalletFunding : TOTAL_SUPPLY + a <= MaxSupply})

MintRetryUser == MintBy({minter}, {DefaultAccount("u1")}, {a \in RetryPersonalFunding : TOTAL_SUPPLY + a <= MaxSupply})

RetryNext ==
    \/ MintRetryWallet
    \/ MintRetryUser
    \/ LedgerExecutesCall
    \/ LedgerExecutesCustodyCall
    \/ CallRejected
    \/ RetryWithdrawFunds
    \/ WithdrawFundsReply
    \/ RetryDepositFunds
    \/ DepositFundsReply
    \/ RetryDepositToCustody
    \/ DepositToCustodyReply

RetrySpec == Init /\ [][RetryNext]_vars

(* The custodial wallet over a ledger balance that two deposits use up *)
MintCollateral == MintBy({minter}, {DefaultAccount(backend)}, {a \in CollateralFunding : TOTAL_SUPPLY + a <= MaxSupply})

CollateralNext ==
    \/ MintCollateral
    \/ LedgerExecutesCall
    \/ CallRejected
    \/ WithdrawFunds
    \/ WithdrawFundsReply
    \/ DepositFunds
    \/ DepositFundsReply
    \/ VirtualTransfer

CollateralSpec == Init /\ [][CollateralNext]_vars

(* The custodial wallet with its reserve query *)
ReserveNext ==
    \/ MintToWallet
    \/ LedgerExecutesCall
    \/ CallRejected
    \/ WithdrawFunds
    \/ WithdrawFundsReply
    \/ DepositFunds
    \/ DepositFundsReply
    \/ VirtualTransfer
    \/ GetReserveStatus

ReserveSpec == Init /\ [][ReserveNext]_vars


----------------------------------------------------------------------------
(* Observations used by the properties *)

VirtualBalanceOf(balances, user) == unwrap_or(Get(balances, user), 0)

IsWalletStep(e, method, phase) ==
    e.canister = "backend" /\ e.method = method /\ e.phase = phase
ReturnedOk(e) == e.ret # None /\ e.ret[1].tag = "Ok"
ReturnedErr(e) == e.ret # None /\ e.ret[1].tag = "Err"

(* The step resumes the call in slot s and runs it to its return *)
IsReplyOf(s, method) ==
    /\ calls[s].state = "replied"
    /\ calls[s].method = method
    /\ calls'[s] = Idle

LedgerReplyOk(s) == calls[s].reply.tag = "Ok" /\ calls[s].reply.value.tag = "Ok"

IsDebitOf(tx, user) ==
    \/ tx.tx_type = "Withdraw" /\ tx.to_user = Some(user)
    \/ tx.tx_type = "Send" /\ tx.from_user = Some(user)
IsCreditOf(tx, user) ==
    \/ tx.tx_type = "Deposit" /\ tx.from_user = Some(user)
    \/ tx.tx_type = "Send" /\ tx.to_user = Some(user)

(* Virtual amounts of the Confirmed records that debit (or credit) the user *)
RECURSIVE ConfirmedTotal(_, _, _)
ConfirmedTotal(txs, user, side) ==
    IF txs = <<>> THEN 0
    ELSE LET tx == Head(txs)
             counted == /\ tx.status = "Confirmed"
                        /\ IF side = "debit" THEN IsDebitOf(tx, user) ELSE IsCreditOf(tx, user)
         IN  (IF counted THEN tx.virtual_amount[1] ELSE 0)
             + ConfirmedTotal(Tail(txs), user, side)

----------------------------------------------------------------------------
(* C1: two withdraw_funds(u, a) calls that both passed their check against the   *)
(* same balance v, a <= v < 2a, and were suspended together: once the first has *)
(* returned success the second does not, and the balance never goes negative.   *)
C1_SecondWithdrawalFails ==
    [][\A s \in Slots :
          ( /\ IsReplyOf(s, "withdraw_funds")
            /\ IsWalletStep(last, "withdraw_funds", "reply")
            /\ ReturnedOk(last)
            /\ last.caller = calls[s].user
            /\ last.args.amount = calls[s].amount
            /\ last.args.current_balance = calls[s].locals.current_balance
            /\ calls[s].locals.current_balance < 2 * calls[s].amount_u64
            /\ VirtualBalanceOf(USER_BALANCES, calls[s].user)
                 = calls[s].locals.current_balance - calls[s].amount_u64 )
          => /\ ReturnedErr(last')
             /\ VirtualBalanceOf(USER_BALANCES', calls[s].user) >= 0]_vars

(* C2: for every user the confirmed withdrawals and outgoing virtual transfers *)
(* never exceed the confirmed deposits and incoming virtual transfers (every   *)
(* virtual balance starts at zero).                                            *)
C2_NoOverspend ==
    \A u \in Users :
        ConfirmedTotal(STABLE_TRANSACTIONS, u, "debit")
            <= ConfirmedTotal(STABLE_TRANSACTIONS, u, "credit")

(* C3: the step in which withdraw_funds(u, a) returns success lowers the balance *)
(* that u has immediately before that step by exactly a.                         *)
C3_WithdrawalDebitsCurrentBalance ==
    [][\A s \in Slots :
          (IsReplyOf(s, "withdraw_funds") /\ ReturnedOk(last'))
          => VirtualBalanceOf(USER_BALANCES', calls[s].user)
               = VirtualBalanceOf(USER_BALANCES, calls[s].user) - calls[s].amount_u64]_vars

(* C4: withdraw_funds leaves every virtual balance as it is in its call step,  *)
(* while the ledger handles (or the system rejects) its transfer, and in its   *)
(* reply step when the ledger transfer failed; a failed transfer is returned   *)
(* as an error.                                                                *)
C4_WithdrawalDebitsOnlyAfterLedgerSuccess ==
    [][/\ IsWalletStep(last', "withdraw_funds", "call") => USER_BALANCES' = USER_BALANCES
       /\ \A s \in Slots :
            ( /\ calls[s].state = "called" /\ calls[s].method = "withdraw_funds"
              /\ calls'[s].state = "replied" )
            => USER_BALANCES' = USER_BALANCES
       /\ \A s \in Slots :
            (IsReplyOf(s, "withdraw_funds") /\ ~LedgerReplyOk(s))
            => (USER_BALANCES' = USER_BALANCES /\ ReturnedErr(last'))]_vars

(* A withdrawal has just failed on a ledger error and the caller still holds *)
(* the balance it asked for                                                  *)
C4_Witness ==
    /\ IsWalletStep(last, "withdraw_funds", "reply")
    /\ ReturnedErr(last)
    /\ last.ret[1].error.kind = "transfer failed"
    /\ VirtualBalanceOf(USER_BALANCES, last.caller) >= last.args.amount

----------------------------------------------------------------------------
(* Ledger observations *)

IsLedgerStep(e, method) == e.canister = "ledger" /\ e.method = method
EffectiveFee(args) == unwrap_or(args.fee, TRANSFER_FEE)
DebitedAccount(e) ==
    IF e.method = "icrc2_transfer_from" THEN e.args.from
    ELSE Account(e.caller, e.args.from_subaccount)
IsTransferStep(e) == IsLedgerStep(e, "icrc1_transfer") \/ IsLedgerStep(e, "icrc2_transfer_from")
AllAccounts == (DOMAIN BALANCES) \cup (DOMAIN BALANCES') \cup Accounts

(* C5: a successful transfer or transfer_from debits the sender by amount + fee, *)
(* credits the receiver by amount, changes no other balance (sender = receiver  *)
(* loses the fee), so the sum of all balances drops by exactly the fee; it      *)
(* returns the block index and advances it in the same step.                    *)
C5_TransferConservation ==
    [][(IsTransferStep(last') /\ last'.ret.tag = "Ok")
       => LET a == last'.args
              fee == EffectiveFee(a)
              from == DebitedAccount(last')
          IN  /\ \A x \in AllAccounts :
                    balance_of(BALANCES', x)
                      = balance_of(BALANCES, x)
                        - (IF x = from THEN a.amount + fee ELSE 0)
                        + (IF x = a.to THEN a.amount ELSE 0)
              /\ SumValues(BALANCES') + fee = SumValues(BALANCES)
              /\ last'.ret.value = BLOCK_INDEX
              /\ BLOCK_INDEX' = BLOCK_INDEX + 1]_vars

(* A transfer from an account to itself has just succeeded *)
C5_Witness ==
    /\ IsTransferStep(last)
    /\ last.ret.tag = "Ok"
    /\ last.args.to = DebitedAccount(last)
    /\ last.args.amount > 0

(* C6 as claimed: every balance is >= 0, and a transfer or transfer_from whose *)
(* debited account holds less than amount + fee, or an approve whose caller    *)
(* holds less than the fee, fails with InsufficientFunds carrying the balance  *)
(* and changes nothing.                                                        *)
C6_InsufficientFundsAlways ==
    /\ [](\A x \in DOMAIN BALANCES : BALANCES[x] >= 0)
    /\ [][/\ ( /\ IsTransferStep(last')
               /\ balance_of(BALANCES, DebitedAccount(last'))
                    < last'.args.amount + EffectiveFee(last'.args) )
             => ( /\ last'.ret = Err(InsufficientFunds(balance_of(BALANCES, DebitedAccount(last'))))
                  /\ UNCHANGED ledgerVars )
          /\ ( /\ IsLedgerStep(last', "icrc2_approve")
               /\ balance_of(BALANCES, DebitedAccount(last')) < EffectiveFee(last'.args) )
             => ( /\ last'.ret = Err(InsufficientFunds(balance_of(BALANCES, DebitedAccount(last'))))
                  /\ UNCHANGED ledgerVars )]_vars

(* The call gets as far as the funds check: the fee check of transfer and *)
(* approve, the allowance check of transfer_from, have passed             *)
ReachesFundsCheck(e) ==
    IF e.method = "icrc2_transfer_from"
    THEN icrc2_allowance(e.args.from, Account(e.caller, e.args.spender_subaccount)).allowance
            >= e.args.amount + EffectiveFee(e.args)
    ELSE EffectiveFee(e.args) = TRANSFER_FEE

(* C6 amended: every balance is >= 0; a transfer or approve with the fixed fee *)
(* (or none), and a transfer_from whose allowance covers amount + fee, fails   *)
(* with InsufficientFunds carrying the balance when the debited account holds  *)
(* less than amount + fee (approve: less than the fee); every failing          *)
(* transfer, transfer_from and approve leaves the ledger unchanged.            *)
C6_InsufficientFundsAfterEarlierChecks ==
    /\ [](\A x \in DOMAIN BALANCES : BALANCES[x] >= 0)
    /\ [][/\ ( /\ IsTransferStep(last')
               /\ ReachesFundsCheck(last')
               /\ balance_of(BALANCES, DebitedAccount(last'))
                    < last'.args.amount + EffectiveFee(last'.args) )
             => last'.ret = Err(InsufficientFunds(balance_of(BALANCES, DebitedAccount(last'))))
          /\ ( /\ IsLedgerStep(last', "icrc2_approve")
               /\ ReachesFundsCheck(last')
               /\ balance_of(BALANCES, DebitedAccount(last')) < EffectiveFee(last'.args) )
             => last'.ret = Err(InsufficientFunds(balance_of(BALANCES, DebitedAccount(last'))))
          /\ ( /\ (IsTransferStep(last') \/ IsLedgerStep(last', "icrc2_approve"))
               /\ last'.ret.tag = "Err" )
             => UNCHANGED ledgerVars]_vars

(* A transfer_from with enough allowance has just failed on the balance of an *)
(* account that holds something                                               *)
C6_Witness ==
    /\ IsLedgerStep(last, "icrc2_transfer_from")
    /\ last.ret.tag = "Err"
    /\ last.ret.error.kind = "InsufficientFunds"
    /\ last.ret.error.balance > 0

----------------------------------------------------------------------------
InsufficientBalanceReturned(e, available) ==
    e.ret = Some(Err(InsufficientVirtualBalance(available, e.args.amount)))

(* C7: every virtual balance is >= 0; a withdraw_funds, or a virtual_transfer to *)
(* another user, that asks for more than the caller's virtual balance returns    *)
(* the insufficient-balance error with that balance, changes no virtual balance *)
(* and no ledger state, and suspends no call on the ledger.                     *)
C7_VirtualNoOverdraft ==
    /\ [](\A u \in DOMAIN USER_BALANCES : USER_BALANCES[u] >= 0)
    /\ [][( /\ \/ IsWalletStep(last', "withdraw_funds", "call")
               \/ ( /\ IsWalletStep(last', "virtual_transfer", "call")
                    /\ last'.args.to_user # last'.caller )
            /\ last'.args.amount > VirtualBalanceOf(USER_BALANCES, last'.caller) )
          => ( /\ InsufficientBalanceReturned(last', VirtualBalanceOf(USER_BALANCES, last'.caller))
               /\ USER_BALANCES' = USER_BALANCES
               /\ calls' = calls
               /\ UNCHANGED ledgerVars )]_vars

(* A withdrawal has just been refused to a user who had been credited before *)
C7_Witness ==
    /\ IsWalletStep(last, "withdraw_funds", "call")
    /\ ReturnedErr(last)
    /\ last.ret[1].error.kind = "Insufficient virtual balance"
    /\ ConfirmedTotal(STABLE_TRANSACTIONS, last.caller, "credit") > 0

(* C8: a successful virtual_transfer debits the caller and credits the receiver *)
(* by the amount in one step, leaves every other entry, the ledger and the call *)
(* contexts alone, keeps the sum of the virtual balances, appends one Confirmed *)
(* Send record without block index and returns that record's id.                *)
C8_VirtualTransferAtomic ==
    [][(IsWalletStep(last', "virtual_transfer", "call") /\ ReturnedOk(last'))
       => LET from == last'.caller
              to == last'.args.to_user
              amount == last'.args.amount
              tx == STABLE_TRANSACTIONS'[Len(STABLE_TRANSACTIONS')]
          IN  /\ from # to
              /\ VirtualBalanceOf(USER_BALANCES', from) = VirtualBalanceOf(USER_BALANCES, from) - amount
              /\ VirtualBalanceOf(USER_BALANCES', to) = VirtualBalanceOf(USER_BALANCES, to) + amount
              /\ \A u \in Principals \ {from, to} : Get(USER_BALANCES', u) = Get(USER_BALANCES, u)
              /\ SumValues(USER_BALANCES') = SumValues(USER_BALANCES)
              /\ UNCHANGED ledgerVars
              /\ calls' = calls
              /\ STABLE_TRANSACTIONS' = Append(STABLE_TRANSACTIONS, tx)
              /\ tx.status = "Confirmed" /\ tx.tx_type = "Send" /\ tx.block_index = None
              /\ tx.from_user = Some(from) /\ tx.to_user = Some(to)
              /\ tx.virtual_amount = Some(amount)
              /\ last'.ret[1].value = tx.id]_vars

(* A virtual transfer to a user who already held a balance has just succeeded *)
C8_Witness ==
    /\ IsWalletStep(last, "virtual_transfer", "call")
    /\ ReturnedOk(last)
    /\ VirtualBalanceOf(USER_BALANCES, last.args.to_user) > last.args.amount

(* C9: a virtual_transfer to the caller itself returns an error, whatever the *)
(* amount and the balance, and changes no virtual balance.                     *)
C9_SelfTransferRejected ==
    [][( /\ IsWalletStep(last', "virtual_transfer", "call")
         /\ last'.args.to_user = last'.caller )
       => (ReturnedErr(last') /\ USER_BALANCES' = USER_BALANCES)]_vars

(* A self-transfer the caller could have afforded has just been refused *)
C9_Witness ==
    /\ IsWalletStep(last, "virtual_transfer", "call")
    /\ last.args.to_user = last.caller
    /\ last.args.amount > 0
    /\ VirtualBalanceOf(USER_BALANCES, last.caller) >= last.args.amount
    /\ ReturnedErr(last)

(* C10: a successful transfer_from lowers the (from, spender) allowance by     *)
(* amount + fee, drops the entry when nothing remains, keeps its expiry        *)
(* otherwise, and changes no other allowance; a transfer_from asking for more  *)
(* than the allowance fails with InsufficientAllowance carrying the allowance, *)
(* whatever the balance, and changes nothing.                                  *)
C10_AllowanceUse ==
    [][IsLedgerStep(last', "icrc2_transfer_from")
       => LET a == last'.args
              key == <<a.from, Account(last'.caller, a.spender_subaccount)>>
              old == icrc2_allowance(key[1], key[2])
              total == a.amount + EffectiveFee(a)
          IN  /\ last'.ret.tag = "Ok"
                 => /\ old.allowance >= total
                    /\ IF old.allowance = total
                       THEN key \notin DOMAIN ALLOWANCES'
                       ELSE /\ key \in DOMAIN ALLOWANCES'
                            /\ ALLOWANCES'[key] = [allowance |-> old.allowance - total,
                                                   expires_at |-> old.expires_at]
                    /\ \A k \in ((DOMAIN ALLOWANCES) \cup (DOMAIN ALLOWANCES')) \ {key} :
                          Get(ALLOWANCES', k) = Get(ALLOWANCES, k)
              /\ old.allowance < total
                 => /\ last'.ret = Err(InsufficientAllowance(old.allowance))
                    /\ UNCHANGED ledgerVars]_vars

(* A transfer_from has just been refused for what an earlier transfer_from left *)
(* of the allowance                                                             *)
C10_Witness ==
    /\ IsLedgerStep(last, "icrc2_transfer_from")
    /\ last.ret.tag = "Err"
    /\ last.ret.error.kind = "InsufficientAllowance"
    /\ last.ret.error.allowance > 0
    /\ \A approved \in ApproveAmounts : last.ret.error.allowance < approved

----------------------------------------------------------------------------
(* Steps of a deposit_to_custody call *)

(* The context in slot s is a deposit_to_custody suspended at the given await *)
IsCustodyCallAt(s, state, step) ==
    /\ calls[s].state = state
    /\ calls[s].method = "deposit_to_custody"
    /\ calls[s].step = step

(* The ledger executes the call the context in slot s is waiting for *)
LedgerAnswers(s) == calls[s].state = "called" /\ calls'[s].state = "replied" /\ last'.canister = "ledger"

(* The backend resumes the context in slot s *)
BackendResumes(s) == calls[s].state = "replied" /\ calls'[s] # calls[s]

(* C11: a successful deposit_to_custody(caller, amount) moves funds on the ledger  *)
(* from the caller's personal account to the caller's custody sub-account: in the *)
(* step in which the ledger executes its transfer successfully, the caller's      *)
(* personal balance decreases by exactly amount + 10, the balance of the custody  *)
(* sub-account (owner = wallet, subaccount derived from the caller) increases by  *)
(* exactly amount, and no other ledger balance changes.                           *)
C11_DepositMovesPersonalFunds ==
    [][\A s \in Slots :
          ( /\ IsCustodyCallAt(s, "called", "transfer")
            /\ LedgerAnswers(s)
            /\ calls'[s].reply = Ok(Ok(BLOCK_INDEX)) )
          => LET personal == DefaultAccount(calls[s].user)
                 custody == CustodialAccount(calls[s].user)
                 amount == calls[s].amount
             IN  /\ balance_of(BALANCES', personal)
                       = balance_of(BALANCES, personal) - amount - WALLET_FEE
                 /\ balance_of(BALANCES', custody) = balance_of(BALANCES, custody) + amount
                 /\ \A a \in AllAccounts \ {personal, custody} :
                       balance_of(BALANCES', a) = balance_of(BALANCES, a)]_vars

(* C12: deposit_to_custody(caller, amount) fails with an insufficient-funds error  *)
(* reporting the caller's personal balance whenever that balance, as the ledger   *)
(* reports it, is less than amount + 10; in that case it issues no ledger         *)
(* transfer and changes no ledger balance and no virtual balance.  The ledger     *)
(* reports the balance of the caller's default account and changes nothing.       *)
C12_DepositRefusedForInsufficientFunds ==
    [][\A s \in Slots :
          /\ ( IsCustodyCallAt(s, "called", "personal_balance") /\ LedgerAnswers(s) )
             => /\ calls'[s].reply = Ok(balance_of(BALANCES, DefaultAccount(calls[s].user)))
                /\ UNCHANGED <<ledgerVars, USER_BALANCES>>
          /\ ( /\ IsCustodyCallAt(s, "replied", "personal_balance")
               /\ BackendResumes(s)
               /\ calls[s].reply.tag = "Ok"
               /\ calls[s].reply.value < calls[s].amount + WALLET_FEE )
             => /\ last'.ret = Some(Err(InsufficientPersonalBalance(
                                            calls[s].reply.value, calls[s].amount + WALLET_FEE)))
                /\ calls'[s] = Idle
                /\ UNCHANGED <<ledgerVars, USER_BALANCES, TRANSACTIONS>>]_vars

(* A deposit has just been refused for a personal balance that is positive but *)
(* below amount + 10                                                           *)
C12_Witness ==
    /\ IsWalletStep(last, "deposit_to_custody", "reply")
    /\ ReturnedErr(last)
    /\ last.ret[1].error.kind = "Insufficient personal balance"
    /\ last.ret[1].error.balance > 0
    /\ last.ret[1].error.balance >= last.args.amount
    /\ last.ret[1].error.balance < last.args.amount + WALLET_FEE

(* C13: whenever the ledger transfer issued by deposit_to_custody or withdraw_funds *)
(* fails (an error returned by the ledger or a failure of the call), the operation *)
(* appends exactly one Failed record to its transaction log before it returns, and *)
(* returns an error; whenever the transfer succeeds the operation appends exactly  *)
(* one Confirmed record carrying the block index the ledger returned.              *)
C13_TransferOutcomeRecorded ==
    [][\A s \in Slots :
          /\ ( IsCustodyCallAt(s, "replied", "transfer") /\ BackendResumes(s)
               /\ ~LedgerReplyOk(s) )
             => /\ ReturnedErr(last')
                /\ Len(TRANSACTIONS') = Len(TRANSACTIONS) + 1
                /\ TRANSACTIONS'[Len(TRANSACTIONS')].status = "Failed"
          /\ ( IsCustodyCallAt(s, "replied", "remaining_personal_balance") /\ BackendResumes(s) )
             => /\ ReturnedOk(last')
                /\ Len(TRANSACTIONS') = Len(TRANSACTIONS) + 1
                /\ TRANSACTIONS'[Len(TRANSACTIONS')].status = "Confirmed"
                /\ TRANSACTIONS'[Len(TRANSACTIONS')].block_index
                      = Some(calls[s].locals.block_index)
          /\ ( IsReplyOf(s, "withdraw_funds") /\ ~LedgerReplyOk(s) )
             => /\ ReturnedErr(last')
                /\ Len(STABLE_TRANSACTIONS') = Len(STABLE_TRANSACTIONS) + 1
                /\ STABLE_TRANSACTIONS'[Len(STABLE_TRANSACTIONS')].status = "Failed"
          /\ ( IsReplyOf(s, "withdraw_funds") /\ LedgerReplyOk(s) )
             => /\ ReturnedOk(last')
                /\ Len(STABLE_TRANSACTIONS') = Len(STABLE_TRANSACTIONS) + 1
                /\ STABLE_TRANSACTIONS'[Len(STABLE_TRANSACTIONS')].status = "Confirmed"
                /\ STABLE_TRANSACTIONS'[Len(STABLE_TRANSACTIONS')].block_index
                      = Some(calls[s].reply.value.value)]_vars

(* C14: a ledger transfer or approve that supplies an explicit fee different from *)
(* the fixed fee (10) fails with BadFee{expected_fee = 10} whatever the caller's  *)
(* balance and leaves balances, allowances, total supply and block index          *)
(* unchanged; an omitted fee is treated as the fixed fee: the call is not refused *)
(* for its fee and, when it succeeds, burns exactly 10.                           *)
C14_BadFee ==
    [][(IsLedgerStep(last', "icrc1_transfer") \/ IsLedgerStep(last', "icrc2_approve"))
       => LET fee == last'.args.fee
          IN  /\ (fee # None /\ fee[1] # TRANSFER_FEE)
                 => /\ last'.ret = Err(BadFee(TRANSFER_FEE))
                    /\ UNCHANGED ledgerVars
              /\ fee = None
                 => /\ ~(last'.ret.tag = "Err" /\ last'.ret.error.kind = "BadFee")
                    /\ last'.ret.tag = "Ok"
                       => SumValues(BALANCES') = SumValues(BALANCES) - TRANSFER_FEE]_vars

(* A transfer with a wrong fee has just been refused with BadFee although the *)
(* caller could not have paid for it                                          *)
C14_Witness ==
    /\ IsLedgerStep(last, "icrc1_transfer")
    /\ last.args.fee # None
    /\ last.args.fee # Some(TRANSFER_FEE)
    /\ last.ret = Err(BadFee(TRANSFER_FEE))
    /\ icrc1_balance_of(DebitedAccount(last)) < last.args.amount + last.args.fee[1]

(* A state-mutating call of the ledger *)
IsLedgerUpdate(e) ==
    \/ IsLedgerStep(e, "icrc1_transfer") \/ IsLedgerStep(e, "icrc2_approve")
    \/ IsLedgerStep(e, "icrc2_transfer_from") \/ IsLedgerStep(e, "mint")

(* C15: the block index starts at 0; every successful state-mutating call        *)
(* (transfer, approve, transfer_from, mint counted together) returns the number *)
(* of successful calls before it and advances the counter by one, so the k-th   *)
(* successful call returns k-1 and indices are strictly increasing and never    *)
(* reused; a call that fails returns no index and does not advance the counter. *)
C15_BlockIndex ==
    /\ [](last.canister = "none" => BLOCK_INDEX = 0)
    /\ [][IsLedgerUpdate(last')
          => IF last'.ret.tag = "Ok"
             THEN /\ last'.ret.value = BLOCK_INDEX
                  /\ BLOCK_INDEX' = BLOCK_INDEX + 1
             ELSE BLOCK_INDEX' = BLOCK_INDEX]_vars

(* The third successful call, one mint and two other calls, has just returned 2 *)
C15_Witness ==
    /\ IsLedgerUpdate(last)
    /\ last.ret = Ok(2)
    /\ BLOCK_INDEX = 3
    /\ last.method # "mint"
    /\ TOTAL_SUPPLY = 22

(* C16: mint(to, amount) succeeds only when the caller is the minter or the      *)
(* backend; for any other caller it fails with GenericError and leaves the      *)
(* ledger unchanged.  On success it credits `to` by exactly amount (no fee),    *)
(* changes no other balance, increases total supply by exactly amount and       *)
(* returns the next block index.                                                *)
C16_Mint ==
    [][IsLedgerStep(last', "mint")
       => LET to == last'.args.to
              amount == last'.args.amount
          IN  IF last'.caller \in {minter, backend}
              THEN /\ last'.ret = Ok(BLOCK_INDEX)
                   /\ BLOCK_INDEX' = BLOCK_INDEX + 1
                   /\ TOTAL_SUPPLY' = TOTAL_SUPPLY + amount
                   /\ balance_of(BALANCES', to) = balance_of(BALANCES, to) + amount
                   /\ \A a \in AllAccounts \ {to} :
                         balance_of(BALANCES', a) = balance_of(BALANCES, a)
                   /\ ALLOWANCES' = ALLOWANCES
              ELSE /\ last'.ret.tag = "Err"
                   /\ last'.ret.error.kind = "GenericError"
                   /\ UNCHANGED ledgerVars]_vars

(* A user's own mint has just been refused after the minter had minted *)
C16_Witness ==
    /\ IsLedgerStep(last, "mint")
    /\ last.caller \in Users
    /\ last.ret = Err(GenericError(1))
    /\ TOTAL_SUPPLY > 0
    /\ BLOCK_INDEX > 0

(* C17: a successful approve(caller, spender, amount) debits exactly the fixed   *)
(* fee from the caller's balance, sets the (caller, spender) allowance to       *)
(* exactly amount with the given expiry (overwriting any previous value),       *)
(* changes no other balance or allowance, and returns the next block index; a   *)
(* failing approve leaves every allowance unchanged.                            *)
C17_Approve ==
    [][IsLedgerStep(last', "icrc2_approve")
       => LET a == last'.args
              owner == Account(last'.caller, a.from_subaccount)
              key == <<owner, a.spender>>
          IN  IF last'.ret.tag = "Ok"
              THEN /\ last'.ret.value = BLOCK_INDEX
                   /\ BLOCK_INDEX' = BLOCK_INDEX + 1
                   /\ balance_of(BALANCES', owner) = balance_of(BALANCES, owner) - TRANSFER_FEE
                   /\ \A x \in AllAccounts \ {owner} :
                         balance_of(BALANCES', x) = balance_of(BALANCES, x)
                   /\ key \in DOMAIN ALLOWANCES'
                   /\ ALLOWANCES'[key] = [allowance |-> a.amount, expires_at |-> a.expires_at]
                   /\ \A k \in ((DOMAIN ALLOWANCES) \cup (DOMAIN ALLOWANCES')) \ {key} :
                         Get(ALLOWANCES', k) = Get(ALLOWANCES, k)
                   /\ TOTAL_SUPPLY' = TOTAL_SUPPLY
              ELSE UNCHANGED ledgerVars]_vars

(* The second approve of an owner for the same spender has just succeeded: one *)
(* mint of 22 and two fees of 10 leave the owner 2, and one allowance exists    *)
C17_Witness ==
    /\ IsLedgerStep(last, "icrc2_approve")
    /\ last.ret = Ok(2)
    /\ TOTAL_SUPPLY = 22
    /\ icrc1_balance_of(Account(last.caller, last.args.from_subaccount)) = 2
    /\ DOMAIN ALLOWANCES = {<<Account(last.caller, last.args.from_subaccount), last.args.spender>>}
    /\ ALLOWANCES[<<Account(last.caller, last.args.from_subaccount), last.args.spender>>].allowance
          = last.args.amount

(* C18: reserve_status reports total_virtual equal to the sum of all virtual      *)
(* balances, actual equal to the wallet's own balance on the token ledger,       *)
(* is_solvent true exactly when actual >= total_virtual, and ratio 1.0 when      *)
(* total_virtual is zero.                                                        *)
C18_ReserveStatus ==
    [][IsWalletStep(last', "get_reserve_status", "call")
       => LET status == last'.ret[1]
              actual == icrc1_balance_of(DefaultAccount(backend))
              total_virtual == SumValues(USER_BALANCES)
          IN  /\ status.total_virtual_balances = total_virtual
              /\ status.backend_actual_balance = actual
              /\ status.is_solvent <=> (actual >= total_virtual)
              /\ total_virtual = 0 => status.reserve_ratio = <<1, 1>>]_vars

(* The result holds the last min(Len(log), 100) records of the log, newest first *)
IsNewestFirst(result, log) ==
    /\ Len(result) = (IF Len(log) < 100 THEN Len(log) ELSE 100)
    /\ \A i \in 1..Len(result) : result[i] = log[Len(log) + 1 - i]
    /\ \A i \in 1..(Len(result) - 1) : result[i].id > result[i + 1].id

C20_Faucet ==
    [][/\ (IsWalletStep(last', "faucet", "call") /\ ~local_development)
          => /\ last'.ret = Some(Err(FaucetOnlyLocal))
             /\ UNCHANGED <<ledgerVars, walletVars, legacyVars>>
       /\ (IsWalletStep(last', "faucet", "call") /\ local_development)
          => /\ last'.ret = None
             /\ \E s \in Slots :
                   /\ calls[s] = Idle
                   /\ calls'[s].state = "called"
                   /\ calls'[s].ledger_method = "mint"
                   /\ calls'[s].args = [to |-> DefaultAccount(last'.caller),
                                        amount |-> 100000000]
                   /\ \A t \in Slots \ {s} : calls'[t] = calls[t]
             /\ UNCHANGED <<ledgerVars, TRANSACTIONS, STABLE_TRANSACTIONS>>
       /\ \A s \in Slots :
             IsReplyOf(s, "faucet")
             => IF LedgerReplyOk(s)
                THEN /\ TRANSACTIONS' = Append(TRANSACTIONS,
                            [id |-> Len(TRANSACTIONS) + 1, tx_type |-> "Mint",
                             token |-> "ckTestBTC", amount |-> 100000000,
                             from |-> "faucet", to |-> calls[s].user,
                             status |-> "Confirmed",
                             block_index |-> Some(calls[s].reply.value.value)])
                     /\ ReturnedOk(last')
                ELSE /\ TRANSACTIONS' = TRANSACTIONS
                     /\ ReturnedErr(last')]_vars

(* A faucet call in a test environment has returned Ok: the ledger holds the    *)
(* minted units for the caller and the log ends with the Mint record            *)
C20_Witness ==
    /\ local_development
    /\ IsWalletStep(last, "faucet", "reply")
    /\ ReturnedOk(last)
    /\ balance_of(BALANCES, DefaultAccount(last.caller)) >= 100000000
    /\ Len(TRANSACTIONS) > 0
    /\ TRANSACTIONS[Len(TRANSACTIONS)].tx_type = "Mint"
    /\ TRANSACTIONS[Len(TRANSACTIONS)].status = "Confirmed"
    /\ TRANSACTIONS[Len(TRANSACTIONS)].to = last.caller

(* C21: get_wallet_status never fails because one of its two balance reads      *)
(* failed.  When it returns, it returns Ok; each reported balance is the value  *)
(* the ledger answered, or 0 when that read failed; total_available is the sum  *)
(* of the two reported balances; can_deposit is true exactly when the reported  *)
(* personal balance is above 0; and no step of the operation changes a ledger   *)
(* balance, a virtual balance or a transaction log.                             *)
C21_WalletStatus ==
    [][/\ \A s \in Slots :
             IsReplyOf(s, "get_wallet_status")
             => LET custodial == calls[s].locals.custodial_result
                    personal == calls[s].reply
                    status == last'.ret[1].value
                IN  /\ ReturnedOk(last')
                    /\ status.custodial_balance =
                           (IF custodial.tag = "Ok" THEN custodial.value ELSE 0)
                    /\ status.personal_balance =
                           (IF personal.tag = "Ok" THEN personal.value ELSE 0)
                    /\ status.total_available =
                           status.custodial_balance + status.personal_balance
                    /\ status.can_deposit = (status.personal_balance > 0)
       /\ (last'.canister = "backend" /\ last'.method = "get_wallet_status")
          => UNCHANGED <<ledgerVars, USER_BALANCES, STABLE_TRANSACTIONS, TRANSACTIONS>>]_vars

(* The status has been returned after the personal read failed: the custody    *)
(* balance is reported, the personal balance as 0 and can_deposit as false     *)
C21_Witness ==
    /\ IsWalletStep(last, "get_wallet_status", "reply")
    /\ ReturnedOk(last)
    /\ last.args.personal_read = "Err"
    /\ last.args.custodial_read = "Ok"
    /\ last.ret[1].value.custodial_balance > 0
    /\ last.ret[1].value.personal_balance = 0
    /\ last.ret[1].value.total_available > 0
    /\ ~last.ret[1].value.can_deposit
    /\ balance_of(BALANCES, DefaultAccount(last.caller)) > 0

(* The record keeps every field; its status stays, or goes from Pending to *)
(* Confirmed or Failed                                                     *)
SameButStatus(old, new) ==
    /\ [old EXCEPT !.status = new.status] = new
    /\ \/ new.status = old.status
       \/ old.status = "Pending" /\ new.status \in {"Confirmed", "Failed"}

(* Every record of the log is still there, at its place *)
ExtendsLog(old, new) ==
    /\ Len(new) >= Len(old)
    /\ \A i \in 1..Len(old) : SameButStatus(old[i], new[i])

(* C22: the transaction logs are append-only.  In every step each log keeps     *)
(* every record it had, at its place (so each log extends the log of every     *)
(* earlier state); no field of a record other than status changes, and a       *)
(* status changes only from Pending to Confirmed or Failed, never out of       *)
(* Confirmed or Failed (hence at most once).                                   *)
C22_AppendOnly ==
    [][/\ ExtendsLog(TRANSACTIONS, TRANSACTIONS')
       /\ ExtendsLog(STABLE_TRANSACTIONS, STABLE_TRANSACTIONS')]_vars

(* Both logs have grown past a Pending record: the legacy log holds a Pending  *)
(* withdrawal followed by a later record, the custodial log a Failed record    *)
C22_Witness ==
    /\ Len(TRANSACTIONS) >= 2
    /\ TRANSACTIONS[1].status = "Pending"
    /\ TRANSACTIONS[2].status \in {"Confirmed", "Failed"}
    /\ Len(STABLE_TRANSACTIONS) >= 1
    /\ STABLE_TRANSACTIONS[1].status = "Failed"

(* The context is waiting for, or has the answer of, a ledger transfer *)
IsTransferCall(c) ==
    /\ c # Idle
    /\ \/ c.method \in {"withdraw_funds", "deposit_funds"}
       \/ c.method = "deposit_to_custody" /\ c.step = "transfer"

(* The await a deposit_to_custody context is at, in program order *)
StepRank(c) ==
    IF c.step = "personal_balance" THEN 1
    ELSE IF c.step = "transfer" THEN 2
    ELSE IF c.step = "new_custodial_balance" THEN 3
    ELSE 4

(* C23: no automatic retry.  An invocation of withdraw_funds or deposit_funds   *)
(* issues its ledger transfer when it is called and an invocation of            *)
(* deposit_to_custody when it resumes from its first balance query, and an      *)
(* invocation never returns to an earlier await, so that it issues at most one  *)
(* transfer; when the answer to that transfer is a failure (an error of the     *)
(* ledger or a rejected call), the invocation ends in that step with an error,  *)
(* issues no ledger call, and changes neither the ledger nor a virtual balance  *)
(* (a failed withdrawal makes no compensating change).                          *)
C23_NoRetry ==
    [][\A s \in Slots :
          /\ (IsTransferCall(calls'[s]) /\ calls'[s].state = "called" /\ ~Suspended(s))
             => /\ calls[s] = Idle
                /\ last'.phase = "call"
                /\ calls'[s].method \in {"withdraw_funds", "deposit_funds"}
          /\ (IsTransferCall(calls'[s]) /\ calls'[s].state = "called" /\ Suspended(s)
                /\ ~IsTransferCall(calls[s]))
             => /\ calls[s].state = "replied"
                /\ calls[s].method = "deposit_to_custody"
                /\ calls[s].step = "personal_balance"
                /\ calls'[s].user = calls[s].user
          /\ (Suspended(s) /\ calls[s].method = "deposit_to_custody"
                /\ calls'[s] # Idle /\ calls'[s] # calls[s])
             => /\ calls'[s].method = "deposit_to_custody"
                /\ StepRank(calls'[s]) >= StepRank(calls[s])
                /\ (calls[s].state = "replied" => StepRank(calls'[s]) > StepRank(calls[s]))
          /\ (IsTransferCall(calls[s]) /\ calls'[s] # Idle /\ calls'[s] # calls[s])
             => /\ calls[s].state = "called" => calls'[s].state = "replied"
                /\ calls[s].state = "replied" => ~IsTransferCall(calls'[s])
          /\ (IsTransferCall(calls[s]) /\ calls[s].state = "replied" /\ ~LedgerReplyOk(s)
                /\ calls'[s] # calls[s])
             => /\ calls'[s] = Idle
                /\ ReturnedErr(last')
                /\ \A t \in Slots \ {s} : calls'[t] = calls[t]
                /\ UNCHANGED <<ledgerVars, USER_BALANCES>>]_vars

(* A withdrawal whose transfer the ledger refused has ended with an error: no *)
(* call is left in flight, the log ends with its Failed record and the user's *)
(* virtual balance is still there                                             *)
C23_Witness ==
    /\ IsWalletStep(last, "withdraw_funds", "reply")
    /\ ReturnedErr(last)
    /\ \A s \in Slots : calls[s] = Idle
    /\ Len(STABLE_TRANSACTIONS) > 0
    /\ STABLE_TRANSACTIONS[Len(STABLE_TRANSACTIONS)].status = "Failed"
    /\ \E u \in Users : get_virtual_balance(u) > 0

(* C24: collateralization.  In every reachable state in which no deposit or   *)
(* withdrawal is in flight, the sum of all virtual balances is at most the    *)
(* balance the wallet holds on the ledger in the account withdrawals are paid *)
(* from (the backend's default account).                                      *)
C24_Collateralized ==
    (\A s \in Slots : calls[s] = Idle)
    => SumValues(USER_BALANCES) <= balance_of(BALANCES, DefaultAccount(backend))

(* C25: deposit_funds(u, a).  When its ledger transfer succeeded, the resuming  *)
(* step sets the virtual balance of u to the value it has at that point plus a  *)
(* (updates committed while the call was suspended are kept), leaves the other  *)
(* virtual balances alone, appends one Confirmed Deposit record with the        *)
(* ledger's block index and returns that index.  When the ledger answered with  *)
(* an error, the step leaves every virtual balance unchanged and appends one    *)
(* Failed Deposit record without block index.                                   *)
C25_DepositCommit ==
    [][\A s \in Slots :
          IsReplyOf(s, "deposit_funds")
          => LET c == calls[s]
                 n == Len(STABLE_TRANSACTIONS)
             IN  IF LedgerReplyOk(s)
                 THEN /\ USER_BALANCES' = Insert(USER_BALANCES, c.user,
                                                 get_virtual_balance(c.user) + c.amount)
                      /\ STABLE_TRANSACTIONS' = Append(STABLE_TRANSACTIONS,
                                                       STABLE_TRANSACTIONS'[n + 1])
                      /\ STABLE_TRANSACTIONS'[n + 1].tx_type = "Deposit"
                      /\ STABLE_TRANSACTIONS'[n + 1].status = "Confirmed"
                      /\ STABLE_TRANSACTIONS'[n + 1].from_user = Some(c.user)
                      /\ STABLE_TRANSACTIONS'[n + 1].virtual_amount = Some(c.amount)
                      /\ STABLE_TRANSACTIONS'[n + 1].block_index = Some(c.reply.value.value)
                      /\ last'.ret = Some(Ok(c.reply.value.value))
                 ELSE IF c.reply.tag = "Ok"
                 THEN /\ USER_BALANCES' = USER_BALANCES
                      /\ STABLE_TRANSACTIONS' = Append(STABLE_TRANSACTIONS,
                                                       STABLE_TRANSACTIONS'[n + 1])
                      /\ STABLE_TRANSACTIONS'[n + 1].tx_type = "Deposit"
                      /\ STABLE_TRANSACTIONS'[n + 1].status = "Failed"
                      /\ STABLE_TRANSACTIONS'[n + 1].from_user = Some(c.user)
                      /\ STABLE_TRANSACTIONS'[n + 1].block_index = None
                      /\ ReturnedErr(last')
                 ELSE USER_BALANCES' = USER_BALANCES]_vars

(* A deposit has committed on top of a deposit of the same user that was sent  *)
(* to the ledger after it and committed before it: both credits are there      *)
C25_Witness ==
    LET n == Len(STABLE_TRANSACTIONS)
    IN  /\ IsWalletStep(last, "deposit_funds", "reply")
        /\ ReturnedOk(last)
        /\ n >= 2
        /\ STABLE_TRANSACTIONS[n].block_index = Some(last.ret[1].value)
        /\ STABLE_TRANSACTIONS[n - 1].tx_type = "Deposit"
        /\ STABLE_TRANSACTIONS[n - 1].status = "Confirmed"
        /\ STABLE_TRANSACTIONS[n - 1].from_user = Some(last.caller)
        /\ STABLE_TRANSACTIONS[n - 1].block_index[1] > last.ret[1].value
        /\ last.args.current_balance > 0
        /\ get_virtual_balance(last.caller) = last.args.current_balance + last.args.amount

(* C26: deposit_to_custody leaves the virtual-balance store unchanged on every  *)
(* path: no step of a deposit_to_custody call, from the call to its return,     *)
(* successful or not, changes a virtual balance or the total that               *)
(* get_reserve_status reports.                                                  *)
C26_CustodyKeepsVirtualBalances ==
    [][(last'.canister = "backend" /\ last'.method = "deposit_to_custody")
       => /\ USER_BALANCES' = USER_BALANCES
          /\ get_reserve_status'.total_virtual_balances
                = get_reserve_status.total_virtual_balances]_vars

(* A deposit_to_custody call has returned its receipt while a user holds a *)
(* virtual balance                                                         *)
C26_Witness ==
    /\ IsWalletStep(last, "deposit_to_custody", "reply")
    /\ ReturnedOk(last)
    /\ get_virtual_balance(last.caller) > 0
    /\ get_reserve_status.total_virtual_balances > 0
    /\ balance_of(BALANCES, CustodialAccount(last.caller)) > 0

(* C27: total-supply accounting.  Both the total supply and the sum of the      *)
(* balances start at 0.  A successful mint raises the total supply and the sum  *)
(* of the balances by exactly its amount; no other step changes the total       *)
(* supply.  A successful transfer, transfer_from or approve lowers the sum of   *)
(* the balances by exactly the fee it charged (the fee is burned) and a failing *)
(* call changes nothing.  Hence the total supply is the sum of the minted       *)
(* amounts, sum(balances) + sum(burned fees) = total supply, and in every state *)
(* sum(balances) <= total supply: a burn never lowers the total supply.         *)
C27_SupplyAccounting ==
    /\ TOTAL_SUPPLY = 0 /\ SumValues(BALANCES) = 0
    /\ [](SumValues(BALANCES) <= TOTAL_SUPPLY)
    /\ [][/\ TOTAL_SUPPLY' # TOTAL_SUPPLY
             => IsLedgerStep(last', "mint") /\ last'.ret.tag = "Ok"
          /\ (IsLedgerStep(last', "mint") /\ last'.ret.tag = "Ok")
             => /\ TOTAL_SUPPLY' = TOTAL_SUPPLY + last'.args.amount
                /\ SumValues(BALANCES') = SumValues(BALANCES) + last'.args.amount
          /\ (IsLedgerUpdate(last') /\ ~IsLedgerStep(last', "mint") /\ last'.ret.tag = "Ok")
             => SumValues(BALANCES') =
                    SumValues(BALANCES) - unwrap_or(last'.args.fee, TRANSFER_FEE)
          /\ (IsLedgerUpdate(last') /\ last'.ret.tag = "Err")
             => UNCHANGED <<BALANCES, TOTAL_SUPPLY>>]_vars

(* A transfer_from has burned its fee: the balances sum to less than the *)
(* total supply, which is what was minted                                *)
C27_Witness ==
    /\ IsLedgerStep(last, "icrc2_transfer_from")
    /\ last.ret.tag = "Ok"
    /\ TOTAL_SUPPLY > 0
    /\ SumValues(BALANCES) < TOTAL_SUPPLY
    /\ SumValues(BALANCES) > 0

(* C28: debit authorization on the ledger.  The balance of an account X goes   *)
(* down only in a step that is a transfer or an approve called by the owner of *)
(* X on X, or a transfer_from with from = X called by a spender whose          *)
(* allowance for (X, spender) before the step was at least the amount plus the *)
(* fee of the call; no other caller and no other operation lowers it.          *)
C28_DebitAuthorized ==
    [][\A x \in AllAccounts :
          balance_of(BALANCES', x) < balance_of(BALANCES, x)
          => \/ /\ IsLedgerStep(last', "icrc1_transfer") \/ IsLedgerStep(last', "icrc2_approve")
                /\ last'.ret.tag = "Ok"
                /\ last'.caller = x.owner
                /\ x = Account(last'.caller, last'.args.from_subaccount)
             \/ /\ IsLedgerStep(last', "icrc2_transfer_from")
                /\ last'.ret.tag = "Ok"
                /\ last'.args.from = x
                /\ icrc2_allowance(x, Account(last'.caller,
                                              last'.args.spender_subaccount)).allowance
                      >= last'.args.amount + EffectiveFee(last'.args)]_vars

(* A spender other than the owner has just drawn on the owner's account *)
C28_Witness ==
    /\ IsLedgerStep(last, "icrc2_transfer_from")
    /\ last.ret.tag = "Ok"
    /\ last.caller # last.args.from.owner
    /\ last.args.to # last.args.from
    /\ balance_of(BALANCES, last.args.to) >= last.args.amount

AllowanceKeys == (DOMAIN ALLOWANCES) \cup (DOMAIN ALLOWANCES')
AllowanceAmount(allowances, k) ==
    IF k \in DOMAIN allowances THEN allowances[k].allowance ELSE 0

(* C29: allowance frame.  The allowance for (owner, spender) changes only in a  *)
(* successful transfer_from called by that spender with from = owner, which     *)
(* lowers it, or in a successful approve called by that owner for that spender; *)
(* transfer, mint and every failing call leave all allowances unchanged.        *)
C29_AllowanceFrame ==
    [][/\ \A k \in AllowanceKeys :
             Get(ALLOWANCES', k) # Get(ALLOWANCES, k)
             => \/ /\ IsLedgerStep(last', "icrc2_transfer_from")
                   /\ last'.ret.tag = "Ok"
                   /\ k = <<last'.args.from,
                            Account(last'.caller, last'.args.spender_subaccount)>>
                   /\ AllowanceAmount(ALLOWANCES', k) < AllowanceAmount(ALLOWANCES, k)
                \/ /\ IsLedgerStep(last', "icrc2_approve")
                   /\ last'.ret.tag = "Ok"
                   /\ k = <<Account(last'.caller, last'.args.from_subaccount),
                            last'.args.spender>>
       /\ (IsLedgerStep(last', "icrc1_transfer") \/ IsLedgerStep(last', "mint")
             \/ (IsLedgerUpdate(last') /\ last'.ret.tag = "Err"))
          => ALLOWANCES' = ALLOWANCES]_vars

(* A transfer_from has lowered one allowance while another one, given by the *)
(* same owner to another spender, is untouched                               *)
C29_Witness ==
    /\ IsLedgerStep(last, "icrc2_transfer_from")
    /\ last.ret.tag = "Ok"
    /\ \E k \in DOMAIN ALLOWANCES :
          /\ k[1] = last.args.from
          /\ k[2] # Account(last.caller, last.args.spender_subaccount)
          /\ ALLOWANCES[k].allowance \in ApproveAmounts

(* C30: transfer_from enforces the fixed fee.  A transfer_from that supplies a  *)
(* fee other than the fixed fee of 10 is refused with BadFee{expected: 10} and  *)
(* changes nothing, so that every successful transfer_from burns exactly 10.    *)
C30_TransferFromFee ==
    [][IsLedgerStep(last', "icrc2_transfer_from")
       => /\ (last'.args.fee # None /\ last'.args.fee # Some(TRANSFER_FEE))
             => /\ last'.ret = Err(BadFee(TRANSFER_FEE))
                /\ UNCHANGED ledgerVars
          /\ last'.ret.tag = "Ok"
             => SumValues(BALANCES') = SumValues(BALANCES) - TRANSFER_FEE]_vars

(***************************************************************************)
(* transfer: the wallet's direct ledger transfer.  It reads the caller's   *)
(* ledger balance, then, if that covers amount + 10, sends icrc1_transfer  *)
(* and writes the legacy log according to the ledger's answer.             *)
(***************************************************************************)
InsufficientBalance(required, balance) ==
    [kind |-> "Insufficient balance", required |-> required, available |-> balance]

(* transfer up to the await of icrc1_balance_of *)
transfer(user, to, amount) ==
    /\ HasFreeSlot
    /\ CallLedger(FreeSlot, "transfer", user, amount, "balance", "icrc1_balance_of",
                  DefaultAccount(user), [to |-> to])
    /\ last' = WalletEvent("transfer", "call", user, [to |-> to, amount |-> amount], None)
    /\ UNCHANGED <<ledgerVars, USER_BALANCES, STABLE_TRANSACTIONS, STABLE_TRANSACTION_COUNTER,
                   legacyVars, minterVars, tokenVars>>

(* transfer from the balance reply to the await of icrc1_transfer *)
transfer_balance(s) ==
    LET c == calls[s]
        balance_result == c.reply
        args == [to |-> c.locals.to, amount |-> c.amount]
        required == c.amount + 10
    IN  IF balance_result.tag = "Err"
        THEN /\ UNCHANGED <<TRANSACTIONS, TRANSACTION_COUNTER>>
             /\ Return(s, "transfer", c.user, args, Err(FailedToCheckBalance))
        ELSE IF balance_result.value < required
        THEN /\ store_transaction("Send", "ckTestBTC", c.amount, c.user, c.locals.to,
                                  "Failed", None)
             /\ Return(s, "transfer", c.user, args,
                       Err(InsufficientBalance(required, balance_result.value)))
        ELSE /\ UNCHANGED <<TRANSACTIONS, TRANSACTION_COUNTER>>
             /\ CallLedger(s, "transfer", c.user, c.amount, "transfer", "icrc1_transfer",
                           TransferArgs(DefaultAccount(c.locals.to), c.amount, Some(10)),
                           c.locals)
             /\ last' = WalletEvent("transfer", "reply", c.user, args, None)

(* the Ok(Ok(block_index)) arm storing the Send record only *)
transfer_ok_send_only(s) ==
    LET c == calls[s]
        block_index == c.reply.value.value
    IN  /\ store_transaction("Send", "ckTestBTC", c.amount, c.user, c.locals.to,
                             "Confirmed", Some(block_index))
        /\ Return(s, "transfer", c.user, [to |-> c.locals.to, amount |-> c.amount],
                  Ok(block_index))

(* the Ok(Ok(block_index)) arm: two store_transaction calls in a row *)
transfer_ok(s) ==
    LET c == calls[s]
        block_index == c.reply.value.value
        send == Transaction(TRANSACTION_COUNTER + 1, "Send", "ckTestBTC", c.amount, c.user,
                            c.locals.to, "Confirmed", Some(block_index))
        receive == Transaction(TRANSACTION_COUNTER + 2, "Receive", "ckTestBTC", c.amount,
                               c.user, c.locals.to, "Confirmed", Some(block_index))
    IN  /\ TRANSACTION_COUNTER' = TRANSACTION_COUNTER + 2
        /\ TRANSACTIONS' = Append(Append(TRANSACTIONS, send), receive)
        /\ Return(s, "transfer", c.user, [to |-> c.locals.to, amount |-> c.amount],
                  Ok(block_index))

(* transfer after the reply to icrc1_transfer *)
transfer_transfer(s) ==
    LET c == calls[s]
        result == c.reply
        args == [to |-> c.locals.to, amount |-> c.amount]
    IN  IF result.tag = "Ok" /\ result.value.tag = "Ok"
        THEN transfer_ok(s)
        ELSE /\ store_transaction("Send", "ckTestBTC", c.amount, c.user, c.locals.to,
                                  "Failed", None)
             /\ IF result.tag = "Ok"
                THEN Return(s, "transfer", c.user, args, Err(TransferFailed(result.value.error)))
                ELSE Return(s, "transfer", c.user, args, Err(CallFailed))

transfer_reply(s) ==
    /\ UNCHANGED <<ledgerVars, USER_BALANCES, STABLE_TRANSACTIONS, STABLE_TRANSACTION_COUNTER,
                   local_development, minterVars, tokenVars>>
    /\ IF calls[s].step = "balance" THEN transfer_balance(s) ELSE transfer_transfer(s)

TransferCallAllowed == LegacyCallAllowed /\ BLOCK_INDEX + NumSuspended < MaxBlocks

Transfer ==
    /\ TransferCallAllowed
    /\ transfer("u1", "u2", 1)

TransferReply ==
    \E s \in Slots :
        /\ calls[s].state = "replied" /\ calls[s].method = "transfer"
        /\ transfer_reply(s)

TransferNext ==
    \/ MintRetryWallet
    \/ MintRetryUser
    \/ Transfer
    \/ LedgerExecutesCustodyCall
    \/ CallRejected
    \/ TransferReply

TransferSpec == Init /\ [][TransferNext]_vars

(***************************************************************************)
(* Amounts around the ends of the u64 range, given to the three wallet     *)
(* operations that validate their amount with to_u64_digits.               *)
(***************************************************************************)
RangeAmounts == {0, 1, U64_LIMIT - 1, U64_LIMIT, U64_LIMIT + 1}

RangeWithdrawFunds ==
    \E amount \in RangeAmounts :
        /\ WalletCallAllowed /\ LedgerCallAllowed
        /\ withdraw_funds("u1", amount)
        /\ UNCHANGED <<legacyVars, minterVars, tokenVars>>

RangeDepositFunds ==
    \E amount \in RangeAmounts :
        /\ WalletCallAllowed /\ LedgerCallAllowed
        /\ deposit_funds("u1", amount)
        /\ UNCHANGED <<legacyVars, minterVars, tokenVars>>

RangeVirtualTransfer ==
    \E to_user \in Users, amount \in RangeAmounts :
        /\ WalletCallAllowed
        /\ virtual_transfer("u1", to_user, amount)
        /\ UNCHANGED <<legacyVars, minterVars, tokenVars>>

RangeNext ==
    \/ RangeWithdrawFunds
    \/ RangeDepositFunds
    \/ RangeVirtualTransfer
    \/ LedgerExecutesCall
    \/ CallRejected
    \/ DepositFundsReply

RangeSpec == Init /\ [][RangeNext]_vars

(***************************************************************************)
(* Virtual balances at the top of the u64 range: the wallet's ledger       *)
(* account holds enough for deposit_funds of the largest u64, a deposit    *)
(* costs the wallet the fee only.                                          *)
(***************************************************************************)
OverflowFunding == {U64_LIMIT + 20}

OverflowAmounts == {U64_LIMIT - 1}

MintOverflowWallet == MintBy({minter}, {DefaultAccount(backend)}, {a \in OverflowFunding : TOTAL_SUPPLY = 0})

OverflowDepositFunds ==
    \E user \in Users, amount \in OverflowAmounts :
        /\ WalletCallAllowed /\ LedgerCallAllowed
        /\ deposit_funds(user, amount)
        /\ UNCHANGED <<legacyVars, minterVars, tokenVars>>

OverflowVirtualTransfer ==
    \E from_user \in Users, to_user \in Users, amount \in OverflowAmounts :
        /\ WalletCallAllowed
        /\ virtual_transfer(from_user, to_user, amount)
        /\ UNCHANGED <<legacyVars, minterVars, tokenVars>>

OverflowNext ==
    \/ MintOverflowWallet
    \/ OverflowDepositFunds
    \/ LedgerExecutesCall
    \/ DepositFundsReply
    \/ OverflowVirtualTransfer
    \/ GetReserveStatus

OverflowSpec == Init /\ [][OverflowNext]_vars

(***************************************************************************)
(* mock_cktestbtc_minter called directly: withdrawal requests and their    *)
(* status, pending and known UTXOs.                                        *)
(***************************************************************************)
DEPOSIT_FEE == 10

Utxo(txid, vout, value, height) ==
    [outpoint |-> [txid |-> txid, vout |-> vout], value |-> value, height |-> height]

NoNewUtxos == [kind |-> "NoNewUtxos", current_confirmations |-> Some(6), required_confirmations |-> 6]
ValueTooSmall(utxo) == [tag |-> "ValueTooSmall", utxo |-> utxo]
Minted(block_index, minted_amount, utxo) ==
    [tag |-> "Minted", block_index |-> block_index, minted_amount |-> minted_amount, utxo |-> utxo]

saturating_sub(a, b) == IF a < b THEN 0 ELSE a - b

retrieve_btc_status(args) == unwrap_or(Get(WITHDRAWAL_REQUESTS, args.block_index), "Unknown")

update_withdrawal_status(block_index, status) ==
    WITHDRAWAL_REQUESTS' = Insert(WITHDRAWAL_REQUESTS, block_index, status)

add_pending_utxo(account, utxo) ==
    LET account_utxos == unwrap_or(Get(PENDING_UTXOS, account), <<>>)
    IN  PENDING_UTXOS' = Insert(PENDING_UTXOS, account, Append(account_utxos, utxo))

(* the `for utxo in pending_utxos` loop of update_balance; st holds           *)
(* utxo_statuses, BLOCK_INDEX and the account's entry of KNOWN_UTXOS          *)
RECURSIVE update_balance_loop(_, _)
update_balance_loop(pending_utxos, st) ==
    IF pending_utxos = <<>> THEN st
    ELSE LET utxo == Head(pending_utxos)
         IN  IF utxo.value < 1000
             THEN update_balance_loop(Tail(pending_utxos),
                     [st EXCEPT !.utxo_statuses = Append(@, ValueTooSmall(utxo))])
             ELSE LET block_index == st.block_index + 1
                      minted_amount == saturating_sub(utxo.value, DEPOSIT_FEE)
                  IN  update_balance_loop(Tail(pending_utxos),
                         [utxo_statuses |-> Append(st.utxo_statuses,
                                                   Minted(block_index, minted_amount, utxo)),
                          block_index |-> block_index,
                          account_utxos |-> Append(st.account_utxos, utxo)])

update_balance(caller, args) ==
    LET account == Account(unwrap_or(args.owner, caller), args.subaccount)
        pending_utxos == unwrap_or(Get(PENDING_UTXOS, account), <<>>)
    IN  IF pending_utxos = <<>>
        THEN [ret |-> Err(NoNewUtxos), block_index |-> MINTER_BLOCK_INDEX,
              known |-> KNOWN_UTXOS, pending |-> PENDING_UTXOS]
        ELSE LET st == update_balance_loop(pending_utxos,
                          [utxo_statuses |-> <<>>, block_index |-> MINTER_BLOCK_INDEX,
                           account_utxos |-> unwrap_or(Get(KNOWN_UTXOS, account), <<>>)])
             IN  [ret |-> Ok(st.utxo_statuses), block_index |-> st.block_index,
                  known |-> IF st.block_index = MINTER_BLOCK_INDEX THEN KNOWN_UTXOS
                            ELSE Insert(KNOWN_UTXOS, account, st.account_utxos),
                  pending |-> Remove(PENDING_UTXOS, account)]

MinterEvent(method, caller, args, ret) ==
    [canister |-> "minter", method |-> method, caller |-> caller, args |-> args, ret |-> ret]

Utxos == {Utxo(<<1>>, 0, 2000, 2500000), Utxo(<<2>>, 0, 999, 2500000)}

UtxoAccounts == {DefaultAccount("u1")}

StatusIndices == 0..2

WithdrawalStatuses == {"Unknown", "Confirmed"}

NumUtxos(account) ==
    Len(unwrap_or(Get(PENDING_UTXOS, account), <<>>)) + Len(unwrap_or(Get(KNOWN_UTXOS, account), <<>>))

RetrieveBtc ==
    \E address \in BtcAddresses, amount \in BtcAmounts :
        LET args == [address |-> address, amount |-> amount]
            o == retrieve_btc(args)
        IN  /\ MINTER_BLOCK_INDEX < MaxBlocks
            /\ MINTER_BLOCK_INDEX' = o.block_index
            /\ WITHDRAWAL_REQUESTS' = o.withdrawals
            /\ last' = MinterEvent("retrieve_btc", "u1", args, o.ret)
            /\ UNCHANGED <<ledgerVars, walletVars, legacyVars, KNOWN_UTXOS, PENDING_UTXOS, tokenVars>>

RetrieveBtcStatus ==
    \E block_index \in StatusIndices :
        LET args == [block_index |-> block_index]
        IN  /\ last' = MinterEvent("retrieve_btc_status", "u1", args,
                                   [status |-> retrieve_btc_status(args)])
            /\ UNCHANGED <<ledgerVars, walletVars, legacyVars, minterVars, tokenVars>>

UpdateWithdrawalStatus ==
    \E block_index \in StatusIndices, status \in WithdrawalStatuses :
        /\ update_withdrawal_status(block_index, status)
        /\ last' = MinterEvent("update_withdrawal_status", "u1",
                               [block_index |-> block_index, status |-> status], [tag |-> "Ok"])
        /\ UNCHANGED <<ledgerVars, walletVars, legacyVars, MINTER_BLOCK_INDEX, KNOWN_UTXOS,
                       PENDING_UTXOS, tokenVars>>

AddPendingUtxo ==
    \E account \in UtxoAccounts, utxo \in Utxos :
        /\ NumUtxos(account) < MaxUtxos
        /\ add_pending_utxo(account, utxo)
        /\ last' = MinterEvent("add_pending_utxo", "u1", [account |-> account, utxo |-> utxo],
                               [tag |-> "Ok"])
        /\ UNCHANGED <<ledgerVars, walletVars, legacyVars, MINTER_BLOCK_INDEX,
                       WITHDRAWAL_REQUESTS, KNOWN_UTXOS, tokenVars>>

UpdateBalance ==
    \E owner \in {None, Some("u1")} :
        LET args == [owner |-> owner, subaccount |-> None]
            o == update_balance("u1", args)
        IN  /\ o.block_index <= MaxBlocks
            /\ MINTER_BLOCK_INDEX' = o.block_index
            /\ KNOWN_UTXOS' = o.known
            /\ PENDING_UTXOS' = o.pending
            /\ last' = MinterEvent("update_balance", "u1", args, o.ret)
            /\ UNCHANGED <<ledgerVars, walletVars, legacyVars, WITHDRAWAL_REQUESTS, tokenVars>>

MinterNext ==
    \/ RetrieveBtc
    \/ RetrieveBtcStatus
    \/ UpdateWithdrawalStatus
    \/ AddPendingUtxo
    \/ UpdateBalance

MinterSpec == Init /\ [][MinterNext]_vars

(***************************************************************************)
(* Canister upgrade.  None of the canisters defines pre_upgrade or         *)
(* post_upgrade, so an upgrade re-creates every thread_local with its      *)
(* initialiser; only the structures kept in stable memory (USER_BALANCES,  *)
(* STABLE_TRANSACTIONS) keep their content.                                *)
(***************************************************************************)
backend_upgrade ==
    /\ TRANSACTIONS' = <<>>
    /\ TRANSACTION_COUNTER' = 0
    /\ STABLE_TRANSACTION_COUNTER' = 0
    /\ UNCHANGED <<USER_BALANCES, STABLE_TRANSACTIONS, local_development>>

ledger_upgrade ==
    /\ BALANCES' = EmptyMap
    /\ ALLOWANCES' = EmptyMap
    /\ TOTAL_SUPPLY' = 0
    /\ BLOCK_INDEX' = 0

UpgradeBackend ==
    /\ NumSuspended = 0
    /\ backend_upgrade
    /\ last' = [canister |-> "backend", method |-> "upgrade"]
    /\ UNCHANGED <<ledgerVars, calls, minterVars, tokenVars>>

UpgradeLedger ==
    /\ NumSuspended = 0
    /\ ledger_upgrade
    /\ last' = [canister |-> "ledger", method |-> "upgrade"]
    /\ UNCHANGED <<walletVars, legacyVars, minterVars, tokenVars>>

VirtualTransferAcrossUpgrades ==
    /\ Len(STABLE_TRANSACTIONS) < MaxTx
    /\ virtual_transfer("u1", "u2", 1)
    /\ UNCHANGED <<legacyVars, minterVars, tokenVars>>

RestartNext ==
    \/ MintToUser
    \/ VirtualTransferAcrossUpgrades
    \/ UpgradeBackend
    \/ UpgradeLedger

RestartSpec == Init /\ [][RestartNext]_vars

(* C32: restart durability.  After a restart of the ledger or of the wallet the *)
(* next block index or custodial transaction id is greater than every one       *)
(* assigned before: the counters never go down, and no two records of the       *)
(* persisted custodial log carry the same id.                                   *)
C32_RestartDurability ==
    /\ [](\A i, j \in 1..Len(STABLE_TRANSACTIONS) :
            i # j => STABLE_TRANSACTIONS[i].id # STABLE_TRANSACTIONS[j].id)
    /\ [][/\ BLOCK_INDEX' >= BLOCK_INDEX
          /\ STABLE_TRANSACTION_COUNTER' >= STABLE_TRANSACTION_COUNTER]_vars

(* C31: transaction ids.  In the legacy log and in the custodial log the record *)
(* at position i carries id i: ids start at 1, rise by exactly 1 per appended   *)
(* record and are therefore unique and ascending, whatever the interleaving of  *)
(* the calls in flight; each counter equals the length of its log.              *)
IdsAscendingFromOne(log) == \A i \in 1..Len(log) : log[i].id = i

C31_TransactionIds ==
    /\ IdsAscendingFromOne(TRANSACTIONS)
    /\ IdsAscendingFromOne(STABLE_TRANSACTIONS)
    /\ TRANSACTION_COUNTER = Len(TRANSACTIONS)
    /\ STABLE_TRANSACTION_COUNTER = Len(STABLE_TRANSACTIONS)

(* two legacy records of interleaved withdrawals, one custodial record, and a   *)
(* further withdrawal still waiting for the minter                              *)
C31_Witness ==
    /\ Len(TRANSACTIONS) >= 2
    /\ Len(STABLE_TRANSACTIONS) >= 1
    /\ NumSuspended >= 1

(* C33: the wallet's transfer.  A caller whose ledger balance is below          *)
(* amount + 10 gets one Failed Send record and no ledger transfer is issued; a  *)
(* successful ledger transfer gives two records, Confirmed Send then Confirmed  *)
(* Receive, with consecutive ids and the transfer's block index, which is       *)
(* returned; a failed ledger transfer gives one Failed Send record and an error.*)
IsFailedSend(t) == t.tx_type = "Send" /\ t.status = "Failed" /\ t.block_index = None

Appended(log, log2) == SubSeq(log2, Len(log) + 1, Len(log2))

C33_Transfer ==
    [][\A s \in Slots :
          (calls[s].state = "replied" /\ calls[s].method = "transfer" /\ calls'[s] # calls[s])
          => LET c == calls[s]
                 new == Appended(TRANSACTIONS, TRANSACTIONS')
             IN  /\ SubSeq(TRANSACTIONS', 1, Len(TRANSACTIONS)) = TRANSACTIONS
                 /\ (c.step = "balance" /\ c.reply.tag = "Ok" /\ c.reply.value < c.amount + 10)
                    => /\ Len(new) = 1 /\ IsFailedSend(new[1])
                       /\ calls'[s] = Idle
                       /\ last'.ret # None /\ last'.ret[1].tag = "Err"
                 /\ (c.step = "balance" /\ c.reply.tag = "Ok" /\ c.reply.value >= c.amount + 10)
                    => /\ new = <<>>
                       /\ calls'[s].state = "called" /\ calls'[s].ledger_method = "icrc1_transfer"
                 /\ (c.step = "transfer" /\ c.reply.tag = "Ok" /\ c.reply.value.tag = "Ok")
                    => /\ Len(new) = 2
                       /\ new[1].tx_type = "Send" /\ new[1].status = "Confirmed"
                       /\ new[2].tx_type = "Receive" /\ new[2].status = "Confirmed"
                       /\ new[2].id = new[1].id + 1
                       /\ new[1].block_index = Some(c.reply.value.value)
                       /\ new[2].block_index = Some(c.reply.value.value)
                       /\ last'.ret = Some(Ok(c.reply.value.value))
                 /\ (c.step = "transfer" /\ ~(c.reply.tag = "Ok" /\ c.reply.value.tag = "Ok"))
                    => /\ Len(new) = 1 /\ IsFailedSend(new[1])
                       /\ last'.ret # None /\ last'.ret[1].tag = "Err"]_vars

(* the log after a transfer that ended in a Failed Send record and a transfer   *)
(* that the ledger executed                                                     *)
C33_Witness ==
    /\ Len(TRANSACTIONS) >= 3
    /\ IsFailedSend(TRANSACTIONS[1])
    /\ TRANSACTIONS[2].tx_type = "Send" /\ TRANSACTIONS[2].status = "Confirmed"
    /\ TRANSACTIONS[3].tx_type = "Receive" /\ TRANSACTIONS[3].status = "Confirmed"
    /\ TRANSACTIONS[3].block_index = TRANSACTIONS[2].block_index

(* C34: amount range validation.  withdraw_funds, virtual_transfer and          *)
(* deposit_funds answer an amount of 0 and every amount of 2^64 or more with    *)
(* the invalid-amount error and change nothing: no balance is read, no ledger   *)
(* call is made, no record is appended.  Every amount in 1..2^64-1 passes.      *)
IsValidatedCall(e) ==
    /\ e.canister = "backend"
    /\ e.method \in {"withdraw_funds", "virtual_transfer", "deposit_funds"}
    /\ e.phase = "call"

C34_AmountRange ==
    [][IsValidatedCall(last')
       => IF last'.args.amount = 0 \/ last'.args.amount >= U64_LIMIT
          THEN /\ last'.ret = Some(Err(InvalidAmountFormat))
               /\ UNCHANGED <<ledgerVars, walletVars, legacyVars, minterVars, tokenVars>>
          ELSE last'.ret # Some(Err(InvalidAmountFormat))]_vars

(* an amount of 2^64 or more has just been refused while a deposit_funds of the *)
(* largest u64, which passed the validation, waits for the ledger               *)
C34_Witness ==
    /\ IsValidatedCall(last)
    /\ last.args.amount >= U64_LIMIT
    /\ last.ret = Some(Err(InvalidAmountFormat))
    /\ \E s \in Slots : Suspended(s) /\ calls[s].method = "deposit_funds"
                        /\ calls[s].amount = U64_LIMIT - 1
    /\ Len(STABLE_TRANSACTIONS) >= 1

(* C35: no wrap-around on credit.  A successful virtual_transfer or             *)
(* deposit_funds leaves the credited user's virtual balance at the old value    *)
(* plus the amount, as integers, and the total of get_reserve_status is the     *)
(* integer sum of all virtual balances.                                         *)
IsSuccessfulCredit(e, method, phase) ==
    /\ e.canister = "backend" /\ e.method = method /\ e.phase = phase
    /\ e.ret # None /\ e.ret[1].tag = "Ok"

C35_NoWrapAround ==
    /\ []((last.canister = "backend" /\ last.method = "get_reserve_status" /\ last.ret # Some(Trap))
            => last.ret[1].total_virtual_balances = SumValues(USER_BALANCES))
    /\ [][/\ IsSuccessfulCredit(last', "deposit_funds", "reply")
             => unwrap_or(Get(USER_BALANCES', last'.caller), 0) =
                    get_virtual_balance(last'.caller) + last'.args.amount
          /\ IsSuccessfulCredit(last', "virtual_transfer", "call")
             => unwrap_or(Get(USER_BALANCES', last'.args.to_user), 0) =
                    get_virtual_balance(last'.args.to_user) + last'.args.amount]_vars

(* C36: refused virtual transfers.  A virtual_transfer refused for insufficient *)
(* balance appends exactly one Failed Send record without a block index; one    *)
(* refused as a self-transfer or for an invalid amount appends no record; none  *)
(* of the three changes a virtual balance.                                      *)
IsVirtualTransferCall(e) ==
    e.canister = "backend" /\ e.method = "virtual_transfer" /\ e.phase = "call"

C36_RefusedVirtualTransfer ==
    [][IsVirtualTransferCall(last')
       => LET from_user == last'.caller
              to_user == last'.args.to_user
              amount == last'.args.amount
              invalid == amount = 0 \/ amount >= U64_LIMIT
              self == from_user = to_user
              short == get_virtual_balance(from_user) < amount
          IN  /\ invalid
                 => /\ last'.ret = Some(Err(InvalidAmountFormat))
                    /\ UNCHANGED <<USER_BALANCES, STABLE_TRANSACTIONS, STABLE_TRANSACTION_COUNTER>>
              /\ (~invalid /\ self)
                 => /\ last'.ret = Some(Err(CannotTransferToYourself))
                    /\ UNCHANGED <<USER_BALANCES, STABLE_TRANSACTIONS, STABLE_TRANSACTION_COUNTER>>
              /\ (~invalid /\ ~self /\ short)
                 => /\ last'.ret[1].tag = "Err"
                    /\ UNCHANGED USER_BALANCES
                    /\ Len(STABLE_TRANSACTIONS') = Len(STABLE_TRANSACTIONS) + 1
                    /\ SubSeq(STABLE_TRANSACTIONS', 1, Len(STABLE_TRANSACTIONS)) = STABLE_TRANSACTIONS
                    /\ LET t == STABLE_TRANSACTIONS'[Len(STABLE_TRANSACTIONS')]
                       IN  /\ t.tx_type = "Send" /\ t.status = "Failed"
                           /\ t.block_index = None
                           /\ t.from_user = Some(from_user) /\ t.to_user = Some(to_user)]_vars

(* a transfer refused for insufficient balance while another user holds a       *)
(* virtual balance                                                              *)
C36_Witness ==
    /\ IsVirtualTransferCall(last)
    /\ last.ret[1].tag = "Err"
    /\ last.ret[1].error.kind = "Insufficient virtual balance"
    /\ \E u \in Users : get_virtual_balance(u) > 0
    /\ STABLE_TRANSACTIONS[Len(STABLE_TRANSACTIONS)].status = "Failed"

(* C37: bridging retrieve_btc.  An address without a testnet prefix fails with  *)
(* MalformedAddress, otherwise an amount below 1000 fails with                  *)
(* AmountTooLow(1000), and neither failure moves the block index or records a   *)
(* request; otherwise the request gets the block index previous + 1, which is   *)
(* recorded as Pending.  The block index never goes down and every index that   *)
(* update_balance reports for a mint is above the index before the call.        *)
IsMinterStep(e, method) == e.canister = "minter" /\ e.method = method

RetrieveBtcStep ==
    /\ IsMinterStep(last', "retrieve_btc")
       => IF ~has_testnet_prefix(last'.args.address)
          THEN last'.ret = Err(MalformedAddress) /\ UNCHANGED minterVars
          ELSE IF last'.args.amount < 1000
          THEN last'.ret = Err(AmountTooLow(1000)) /\ UNCHANGED minterVars
          ELSE /\ last'.ret = Ok(RetrieveBtcOk(MINTER_BLOCK_INDEX + 1))
               /\ MINTER_BLOCK_INDEX' = MINTER_BLOCK_INDEX + 1
               /\ Get(WITHDRAWAL_REQUESTS', MINTER_BLOCK_INDEX + 1) = Some("Pending")
    /\ MINTER_BLOCK_INDEX' >= MINTER_BLOCK_INDEX
    /\ (IsMinterStep(last', "update_balance") /\ last'.ret.tag = "Ok")
       => \A i \in 1..Len(last'.ret.value) :
             last'.ret.value[i].tag = "Minted"
             => /\ last'.ret.value[i].block_index > MINTER_BLOCK_INDEX
                /\ last'.ret.value[i].block_index <= MINTER_BLOCK_INDEX'
                /\ \A j \in 1..Len(last'.ret.value) :
                      (j # i /\ last'.ret.value[j].tag = "Minted")
                      => last'.ret.value[j].block_index # last'.ret.value[i].block_index

(* C37 as stated: in addition, retrieve_btc_status answers Unknown exactly for  *)
(* the indices that were never recorded.                                        *)
C37_StatusUnknownExactly ==
    [][/\ RetrieveBtcStep
       /\ IsMinterStep(last', "retrieve_btc_status")
          => (last'.ret.status = "Unknown"
              <=> last'.args.block_index \notin DOMAIN WITHDRAWAL_REQUESTS)]_vars

(* C37 amended: retrieve_btc_status answers Unknown for every index that has no *)
(* stored status and the stored status for every other index, which is Unknown  *)
(* only if update_withdrawal_status stored Unknown.                             *)
C37_RetrieveBtc ==
    [][/\ RetrieveBtcStep
       /\ IsMinterStep(last', "retrieve_btc_status")
          => /\ last'.args.block_index \notin DOMAIN WITHDRAWAL_REQUESTS
                => last'.ret.status = "Unknown"
             /\ last'.args.block_index \in DOMAIN WITHDRAWAL_REQUESTS
                => last'.ret.status = WITHDRAWAL_REQUESTS[last'.args.block_index]
       /\ \A i \in DOMAIN WITHDRAWAL_REQUESTS' :
             (Get(WITHDRAWAL_REQUESTS', i) = Some("Unknown")
              /\ Get(WITHDRAWAL_REQUESTS, i) # Some("Unknown"))
             => /\ IsMinterStep(last', "update_withdrawal_status")
                /\ last'.args = [block_index |-> i, status |-> "Unknown"]]_vars

(* a request recorded as Pending under an index that update_balance's mints     *)
(* moved on, and a status query answered Unknown for a recorded index           *)
C37_Witness ==
    /\ IsMinterStep(last, "retrieve_btc_status")
    /\ last.ret.status = "Unknown"
    /\ last.args.block_index \in DOMAIN WITHDRAWAL_REQUESTS
    /\ \E i \in DOMAIN WITHDRAWAL_REQUESTS : i >= 2 /\ WITHDRAWAL_REQUESTS[i] = "Pending"
    /\ KNOWN_UTXOS # EmptyMap


(***************************************************************************)
(* update_balance and the UTXOs it mints                                   *)
(***************************************************************************)
KnownUtxos(known, account) == unwrap_or(Get(known, account), <<>>)

UpdateBalanceAccount(e) == Account(unwrap_or(e.args.owner, e.caller), e.args.subaccount)

(* C38: update_balance mints each UTXO at most once.  After an update_balance  *)
(* the account has no pending UTXOs, and a call that finds none returns        *)
(* NoNewUtxos and changes nothing; a UTXO already among the account's known    *)
(* UTXOs is never reported Minted again, no UTXO is reported Minted twice by   *)
(* one call, and no UTXO appears twice in the account's known UTXOs.           *)
C38_MintedAtMostOnce ==
    [][IsMinterStep(last', "update_balance")
       => LET account == UpdateBalanceAccount(last')
              before == KnownUtxos(KNOWN_UTXOS, account)
              after == KnownUtxos(KNOWN_UTXOS', account)
          IN  /\ Get(PENDING_UTXOS', account) = None
              /\ Get(PENDING_UTXOS, account) = None
                 => /\ last'.ret = Err(NoNewUtxos)
                    /\ UNCHANGED minterVars
              /\ last'.ret.tag = "Ok"
                 => LET statuses == last'.ret.value
                    IN  /\ \A i \in 1..Len(statuses) :
                               statuses[i].tag = "Minted"
                               => /\ \A k \in 1..Len(before) : before[k] # statuses[i].utxo
                                  /\ \A j \in 1..Len(statuses) :
                                         (j # i /\ statuses[j].tag = "Minted")
                                         => statuses[j].utxo # statuses[i].utxo
              /\ \A i, j \in 1..Len(after) : after[i] = after[j] => i = j]_vars


(***************************************************************************)
(* local_token: balances per owner principal and the transaction counter   *)
(***************************************************************************)
local_token_icrc1_balance_of(account) == unwrap_or(Get(LOCAL_TOKEN_BALANCES, account.owner), 0)

(* icrc1_transfer reading the receiver's balance before the sender is debited *)
local_token_icrc1_transfer_stale_receiver(caller, args) ==
    LET sender_balance == unwrap_or(Get(LOCAL_TOKEN_BALANCES, caller), 0)
    IN  IF sender_balance < args.amount
        THEN [ret |-> Err(InsufficientFunds(sender_balance)),
              balances |-> LOCAL_TOKEN_BALANCES, counter |-> LOCAL_TOKEN_TRANSACTION_COUNTER]
        ELSE LET new_sender_balance == sender_balance - args.amount
                 receiver_balance == unwrap_or(Get(LOCAL_TOKEN_BALANCES, args.to.owner), 0)
                 debited == IF new_sender_balance = 0
                            THEN Remove(LOCAL_TOKEN_BALANCES, caller)
                            ELSE Insert(LOCAL_TOKEN_BALANCES, caller, new_sender_balance)
             IN  [ret |-> Ok(LOCAL_TOKEN_TRANSACTION_COUNTER + 1),
                  balances |-> Insert(debited, args.to.owner, receiver_balance + args.amount),
                  counter |-> LOCAL_TOKEN_TRANSACTION_COUNTER + 1]

local_token_icrc1_transfer(caller, args) ==
    LET sender_balance == unwrap_or(Get(LOCAL_TOKEN_BALANCES, caller), 0)
    IN  IF sender_balance < args.amount
        THEN [ret |-> Err(InsufficientFunds(sender_balance)),
              balances |-> LOCAL_TOKEN_BALANCES, counter |-> LOCAL_TOKEN_TRANSACTION_COUNTER]
        ELSE LET new_sender_balance == sender_balance - args.amount
                 debited == IF new_sender_balance = 0
                            THEN Remove(LOCAL_TOKEN_BALANCES, caller)
                            ELSE Insert(LOCAL_TOKEN_BALANCES, caller, new_sender_balance)
                 receiver_balance == unwrap_or(Get(debited, args.to.owner), 0)
             IN  [ret |-> Ok(LOCAL_TOKEN_TRANSACTION_COUNTER + 1),
                  balances |-> Insert(debited, args.to.owner, receiver_balance + args.amount),
                  counter |-> LOCAL_TOKEN_TRANSACTION_COUNTER + 1]

local_token_mint(account, amount) ==
    LET current_balance == unwrap_or(Get(LOCAL_TOKEN_BALANCES, account.owner), 0)
    IN  [ret |-> Ok(LOCAL_TOKEN_TRANSACTION_COUNTER + 1),
         balances |-> Insert(LOCAL_TOKEN_BALANCES, account.owner, current_balance + amount),
         counter |-> LOCAL_TOKEN_TRANSACTION_COUNTER + 1]

TokenEvent(method, caller, args, ret) ==
    [canister |-> "local_token", method |-> method, caller |-> caller, args |-> args, ret |-> ret]

TokenAmounts == 0..2

LocalTokenBalanceOf ==
    \E caller \in Users, owner \in Users :
        LET account == DefaultAccount(owner)
        IN  /\ last' = TokenEvent("icrc1_balance_of", caller, [account |-> account],
                                  Ok(local_token_icrc1_balance_of(account)))
            /\ UNCHANGED <<ledgerVars, walletVars, legacyVars, minterVars, tokenVars>>

LocalTokenTransfer ==
    \E caller \in Users, to \in Users, amount \in TokenAmounts :
        LET args == TransferArgs(DefaultAccount(to), amount, None)
            o == local_token_icrc1_transfer(caller, args)
        IN  /\ o.counter <= MaxTokenTx
            /\ LOCAL_TOKEN_BALANCES' = o.balances
            /\ LOCAL_TOKEN_TRANSACTION_COUNTER' = o.counter
            /\ last' = TokenEvent("icrc1_transfer", caller, args, o.ret)
            /\ UNCHANGED <<ledgerVars, walletVars, legacyVars, minterVars>>

LocalTokenMint ==
    \E caller \in Users, owner \in Users, amount \in TokenAmounts :
        LET account == DefaultAccount(owner)
            o == local_token_mint(account, amount)
        IN  /\ o.counter <= MaxTokenTx
            /\ LOCAL_TOKEN_BALANCES' = o.balances
            /\ LOCAL_TOKEN_TRANSACTION_COUNTER' = o.counter
            /\ last' = TokenEvent("mint", caller, [account |-> account, amount |-> amount], o.ret)
            /\ UNCHANGED <<ledgerVars, walletVars, legacyVars, minterVars>>

TokenNext ==
    \/ LocalTokenBalanceOf
    \/ LocalTokenTransfer
    \/ LocalTokenMint

TokenSpec == Init /\ [][TokenNext]_vars

IsTokenStep(e, method) == e.canister = "local_token" /\ e.method = method

(* C39: a successful local_token icrc1_transfer, sender == receiver included,  *)
(* preserves the sum of all balances; a transfer of more than the sender's     *)
(* balance fails with InsufficientFunds carrying that balance and changes      *)
(* nothing; the counter starts at 0 and every successful transfer or mint      *)
(* returns the previous counter plus one, so the values returned are 1, 2, 3.. *)
C39_LocalToken ==
    /\ LOCAL_TOKEN_TRANSACTION_COUNTER = 0
    /\ [][/\ IsTokenStep(last', "icrc1_transfer")
             => LET balance == unwrap_or(Get(LOCAL_TOKEN_BALANCES, last'.caller), 0)
                IN  IF last'.args.amount > balance
                    THEN /\ last'.ret = Err(InsufficientFunds(balance))
                         /\ UNCHANGED tokenVars
                    ELSE /\ last'.ret.tag = "Ok"
                         /\ SumValues(LOCAL_TOKEN_BALANCES') = SumValues(LOCAL_TOKEN_BALANCES)
          /\ ((IsTokenStep(last', "icrc1_transfer") \/ IsTokenStep(last', "mint"))
              /\ last'.ret.tag = "Ok")
             => /\ last'.ret.value = LOCAL_TOKEN_TRANSACTION_COUNTER + 1
                /\ LOCAL_TOKEN_TRANSACTION_COUNTER' = LOCAL_TOKEN_TRANSACTION_COUNTER + 1
          /\ LOCAL_TOKEN_TRANSACTION_COUNTER' >= LOCAL_TOKEN_TRANSACTION_COUNTER]_vars

(* the third successful call is a transfer of a positive amount from an        *)
(* account to itself, and the account still holds what it held                 *)
C39_Witness ==
    /\ IsTokenStep(last, "icrc1_transfer")
    /\ last.args.to.owner = last.caller
    /\ last.args.amount > 0
    /\ last.ret = Ok(3)
    /\ LOCAL_TOKEN_TRANSACTION_COUNTER = 3
    /\ unwrap_or(Get(LOCAL_TOKEN_BALANCES, last.caller), 0) >= last.args.amount

====
